---- MODULE Spec2Model ----
(***************************************************************************)
(* Remittance assistant: the conversation graph of the backend             *)
(* (backend/agent/graph.py, the guided workflow subgraphs) and the         *)
(* transaction pipeline of the tool server (mcp-remittance/src/remittance, *)
(* api/client.py, auth/manager.py).                                        *)
(*                                                                         *)
(* Ten specifications share the variables:                                  *)
(*   Spec          one session of the conversation graph; the tool server  *)
(*                 is seen through the calls it receives.                  *)
(*   SpecSubgraph  the harness of backend/test_subgraphs.py: one guided    *)
(*                 workflow node applied to an arbitrary input state.      *)
(*   SpecPipeline  the tool server: pipeline tools called with the         *)
(*                 arguments the tools declare, against the gateway.       *)
(*   SpecServer    the tool server as the graph calls it: pipeline,        *)
(*                 wallet and recipient tools, with or without an          *)
(*                 external token.                                         *)
(*   SpecClient    requests made on the gateway client on its own.         *)
(*   SpecManager   any sequence of the Token Manager's methods.            *)
(*   SpecIntent    detect_intent applied to the checkpointed states.       *)
(*   SpecTools     execute_mcp_tools followed call by call.                *)
(*   SpecPass      one pass of the graph, scheduled to its end.            *)
(*   SpecAuth      the login flow of the tool server, request by request.  *)
(***************************************************************************)
EXTENDS Integers, Sequences, FiniteSets, TLC

VARIABLES
    messages,          \* AgentState["messages"]
    current_workflow,  \* AgentState["current_workflow"]
    workflow_step,     \* AgentState["workflow_step"]
    node,              \* the node of the graph that runs next
    toolServerCalls,   \* session.call_tool calls made by the graph, in order
    llmCalls,          \* number of chat_node runs so far
    initial_state,     \* test_subgraph: the state the subgraph is invoked with
    tm_enabled,        \* TokenManager._enabled
    tm_token,          \* TokenManager._current_token
    lastCall,          \* the last pipeline tool call and what came of it
    calls,             \* number of pipeline tool calls so far
    issuedCalcs,       \* calculationIds the gateway has returned
    clientOp,          \* the last request made on the client and what came of it
    tm_metadata,       \* TokenManager._token_metadata
    tmOp,              \* the last Token Manager method called and what it returned
    extra_arguments,   \* what the tool framework does with an argument a tool does not declare
    results,           \* execute_mcp_tools: the tool messages gathered so far
    inflight,          \* execute_mcp_tools: the calls sent and not yet answered
    authRun,           \* the last run of generate_authentication_token, step by step
    sasai_token_context,  \* the value the last dispatch left in the context variable
    httpRequests,      \* the requests the backend is serving
    sessions           \* the tool call each session of the tool server is in

graphVars == <<messages, current_workflow, workflow_step, node, toolServerCalls, llmCalls,
               initial_state>>
serverVars ==
    <<tm_enabled, tm_token, lastCall, calls, issuedCalcs, clientOp, tm_metadata, tmOp,
      extra_arguments>>
\* the positions of the handlers that are followed step by step
auxVars == <<results, inflight, authRun, sasai_token_context, httpRequests, sessions>>
\* what execute_mcp_tools, followed call by call, leaves alone
flowVars == <<authRun, sasai_token_context, httpRequests, sessions>>
\* what the tools of the server leave alone
otherVars == <<tm_enabled, extra_arguments, clientOp, tmOp>>
vars == <<messages, current_workflow, workflow_step, node, toolServerCalls, llmCalls,
          initial_state, tm_enabled, tm_token, lastCall, calls, issuedCalcs, clientOp,
          tm_metadata, tmOp, extra_arguments, results, inflight, authRun,
          sasai_token_context, httpRequests, sessions>>

NULL == "null"

-----------------------------------------------------------------------------
(* Bounds *)

MaxTurns == 2        \* user messages per session
MaxLLM == 2          \* chat_node runs per session
MaxToolCalls == 2    \* tool calls in one LLM message
MaxCalls == 3        \* pipeline tool calls per run of the tool server
MaxRequests == 1     \* requests made on the client on its own
MaxInflight == 2     \* requests the backend serves at the same time
MaxSessions == 2     \* sessions that call the tool server at the same time

-----------------------------------------------------------------------------
(* Messages.  A content is a tuple of text fragments; a user text is the   *)
(* tuple of the keyword phrases that occur in it, in the case the user     *)
(* typed them.                                                             *)

Fragments(content) == {content[i] : i \in DOMAIN content}

HumanMessage(content) ==
    [type |-> "human", content |-> content, tool_calls |-> <<>>,
     tool_call_id |-> NULL, name |-> NULL]

AIMessage(content, tool_calls) ==
    [type |-> "ai", content |-> content, tool_calls |-> tool_calls,
     tool_call_id |-> NULL, name |-> NULL]

ToolMessage(tool_call_id, name, content) ==
    [type |-> "tool", content |-> content, tool_calls |-> <<>>,
     tool_call_id |-> tool_call_id, name |-> name]

IsHuman(m) == m.type = "human"
IsTool(m) == m.type = "tool"
IsAIWithCalls(m) == m.type = "ai" /\ m.tool_calls # <<>>

\* the largest index of a set of indices, 0 when there is none: what a scan
\* of reversed(messages) finds first
Last(found) == IF found = {} THEN 0 ELSE CHOOSE i \in found : \A j \in found : j <= i

LastHuman(msgs) == Last({i \in DOMAIN msgs : IsHuman(msgs[i])})
LastTool(msgs) == Last({i \in DOMAIN msgs : IsTool(msgs[i])})
LastAIWithCalls(msgs) == Last({i \in DOMAIN msgs : IsAIWithCalls(msgs[i])})

-----------------------------------------------------------------------------
(* Intent detection *)

WorkflowNames == {"transaction_help", "financial_insights", "refund",
                  "loan_enquiry", "card_issue", "general_enquiry"}

Lower(s) ==
    CASE s = "Refund" -> "refund"
      [] s = "LOAN" -> "loan"
      [] OTHER -> s

KW_transaction_help == {"help with transaction", "transaction issue", "payment problem",
                        "transaction to", "payment to"}
KW_financial_insights == {"financial insights", "analyze", "analyse", "insights", "cash flow",
                          "spending analysis", "incoming analysis", "investment analysis",
                          "analyze incoming", "analyze spends", "analyze investment",
                          "show insights", "financial overview", "spending breakdown"}
KW_refund == {"refund", "money back", "return payment", "get refund"}
KW_loan_enquiry == {"loan", "borrow", "credit", "apply for loan", "loan application"}
KW_card_issue == {"card", "debit card", "credit card", "card blocked", "card not working"}
KW_general_enquiry == {"help", "question", "enquiry", "information", "how to"}

\* the same scan with card_issue tried before loan_enquiry
detect_workflow_intent_card_first(user_message) ==
    LET user_lower == {Lower(f) : f \in Fragments(user_message)}
        any(kws) == kws \cap user_lower # {}
    IN  IF any(KW_transaction_help) THEN "transaction_help"
        ELSE IF any(KW_financial_insights) THEN "financial_insights"
        ELSE IF any(KW_refund) THEN "refund"
        ELSE IF any(KW_card_issue) THEN "card_issue"
        ELSE IF any(KW_loan_enquiry) THEN "loan_enquiry"
        ELSE IF any(KW_general_enquiry) THEN "general_enquiry"
        ELSE NULL

detect_workflow_intent(user_message) ==
    LET user_lower == {Lower(f) : f \in Fragments(user_message)}
        any(kws) == kws \cap user_lower # {}
    IN  IF any(KW_transaction_help) THEN "transaction_help"
        ELSE IF any(KW_financial_insights) THEN "financial_insights"
        ELSE IF any(KW_refund) THEN "refund"
        ELSE IF any(KW_loan_enquiry) THEN "loan_enquiry"
        ELSE IF any(KW_card_issue) THEN "card_issue"
        ELSE IF any(KW_general_enquiry) THEN "general_enquiry"
        ELSE NULL

\* the texts a user sends in the model
UserTexts == { <<"Refund">>,                      \* "I need a Refund"
               <<"LOAN">>,                        \* "I want to apply for a LOAN"
               <<"transaction to", "help">>,      \* "I need help with my transaction to ..."
               <<"credit", "card", "credit card">>, \* "my credit card is blocked"
               <<"question">>,                    \* "I have a question"
               <<"insights", "show insights">>,   \* "show insights"
               <<>> }                             \* "Check exchange rates"

\* the texts of the sessions of the graph
SessionTexts == { <<"Refund">>, <<"LOAN">>, <<>> }

WelcomeText == <<"How can I help you today?">>

State(msgs, cw, ws) == [messages |-> msgs, current_workflow |-> cw, workflow_step |-> ws]

\* detection that does not look at current_workflow first
detect_intent_node_always(state) ==
    LET msgs == state.messages
        user_messages == SelectSeq(msgs, IsHuman)
    IN  IF Len(user_messages) = 0
        THEN [state EXCEPT !.messages = Append(msgs, AIMessage(WelcomeText, <<>>))]
        ELSE LET workflow_name == detect_workflow_intent(msgs[LastHuman(msgs)].content)
             IN  IF workflow_name # NULL
                 THEN [state EXCEPT !.current_workflow = workflow_name]
                 ELSE state

detect_intent_node(state) ==
    LET msgs == state.messages
        user_messages == SelectSeq(msgs, IsHuman)
    IN  IF Len(user_messages) = 0
        THEN [state EXCEPT !.messages = Append(msgs, AIMessage(WelcomeText, <<>>))]
        ELSE IF state.current_workflow # NULL
        THEN state
        ELSE LET last_user_message == msgs[LastHuman(msgs)]
                 user_message == last_user_message.content
                 workflow_name == detect_workflow_intent(user_message)
             IN  IF workflow_name # NULL
                 THEN [state EXCEPT !.current_workflow = workflow_name]
                 ELSE state

\* the edge without the test of workflow_step
route_after_intent_any_step(state) ==
    IF state.current_workflow # NULL THEN state.current_workflow ELSE "chat_node"

route_after_intent(state) ==
    IF state.current_workflow # NULL /\ state.workflow_step # "completed"
    THEN state.current_workflow
    ELSE "chat_node"

-----------------------------------------------------------------------------
(* Guided workflow nodes: each subgraph is START -> summarize -> END *)

summarize_transaction_node(state) ==
    LET s1 == [state EXCEPT !.current_workflow = "transaction_help",
                            !.workflow_step = "summarized"]
        s2 == [s1 EXCEPT !.messages = Append(@, AIMessage(<<"Good news: your payment", "Tell us what's wrong">>, <<>>))]
    IN  [s2 EXCEPT !.workflow_step = "completed", !.current_workflow = NULL]

summarize_financial_insights_node(state) ==
    LET s1 == [state EXCEPT !.current_workflow = "financial_insights",
                            !.workflow_step = "summarized"]
        s2 == [s1 EXCEPT !.messages = Append(@, AIMessage(<<"I can help you analyze your financial data!">>, <<>>))]
    IN  [s2 EXCEPT !.workflow_step = "completed", !.current_workflow = NULL]

\* the refund node without its last two assignments
summarize_refund_node_unfinished(state) ==
    LET s1 == [state EXCEPT !.current_workflow = "refund",
                            !.workflow_step = "summarized"]
    IN  [s1 EXCEPT !.messages = Append(@, AIMessage(<<"You have 1 transaction(s) that may be eligible for refund.">>, <<>>))]

summarize_refund_node(state) ==
    LET s1 == [state EXCEPT !.current_workflow = "refund",
                            !.workflow_step = "summarized"]
        s2 == [s1 EXCEPT !.messages = Append(@, AIMessage(<<"You have 1 transaction(s) that may be eligible for refund.">>, <<>>))]
    IN  [s2 EXCEPT !.workflow_step = "completed", !.current_workflow = NULL]

summarize_loan_node(state) ==
    LET s1 == [state EXCEPT !.current_workflow = "loan_enquiry",
                            !.workflow_step = "summarized"]
        s2 == [s1 EXCEPT !.messages = Append(@, AIMessage(<<"I can help you with loan enquiries">>, <<>>))]
    IN  [s2 EXCEPT !.workflow_step = "completed", !.current_workflow = NULL]

summarize_card_node(state) ==
    LET s1 == [state EXCEPT !.current_workflow = "card_issue",
                            !.workflow_step = "summarized"]
        s2 == [s1 EXCEPT !.messages = Append(@, AIMessage(<<"I can see you have a debit card ending in 1234.">>, <<>>))]
    IN  [s2 EXCEPT !.workflow_step = "completed", !.current_workflow = NULL]

summarize_general_node(state) ==
    LET s1 == [state EXCEPT !.current_workflow = "general_enquiry",
                            !.workflow_step = "summarized"]
        s2 == [s1 EXCEPT !.messages = Append(@, AIMessage(<<"I'm here to help! What would you like to know?">>, <<>>))]
    IN  [s2 EXCEPT !.workflow_step = "completed", !.current_workflow = NULL]

\* graph_builder.add_node(<name>, build_<name>_subgraph())
WorkflowNode(name, state) ==
    CASE name = "transaction_help" -> summarize_transaction_node(state)
      [] name = "financial_insights" -> summarize_financial_insights_node(state)
      [] name = "refund" -> summarize_refund_node(state)
      [] name = "loan_enquiry" -> summarize_loan_node(state)
      [] name = "card_issue" -> summarize_card_node(state)
      [] name = "general_enquiry" -> summarize_general_node(state)

-----------------------------------------------------------------------------
(* Routing *)

END == "idle"   \* the pass is over; the graph waits for the next inbound message

route_after_chat(state) ==
    LET msgs == state.messages
    IN  IF msgs # <<>> /\ msgs[Len(msgs)].type = "ai" /\ msgs[Len(msgs)].tool_calls # <<>>
        THEN IF msgs[Len(msgs)].tool_calls[1].name = "create_ticket"
             THEN "ticket_confirmation"
             ELSE "remittance_tools"
        ELSE END

StartsWith(content, word) == Len(content) >= 1 /\ content[1] = word

route_after_confirmation_always(state) == "perform_ticket"

route_after_confirmation(state) ==
    LET msgs == state.messages
    IN  IF msgs # <<>> /\ msgs[Len(msgs)].type = "tool"
           /\ (\/ msgs[Len(msgs)].content \in {<<"CONFIRM">>, <<"CANCEL">>}
               \/ StartsWith(msgs[Len(msgs)].content, "CONFIRM"))
        THEN "perform_ticket"
        ELSE END

-----------------------------------------------------------------------------
(* Tool calls of an LLM message *)

NoArgs == [beneficiary_id |-> NULL, calculation_id |-> NULL, product_id |-> 0,
           transaction_id |-> NULL, payment_method_code |-> NULL]

ToolCall(name, id, args) == [name |-> name, id |-> id, args |-> args]

\* the tool names the LLM uses in a session of the graph
GraphToolNames == {"create_ticket", "get_wallet_balance"}

NameLists == UNION {[1..n -> GraphToolNames] : n \in 0..MaxToolCalls}

\* the tool calls of the k-th LLM message, with the ids the provider gives them
ToolCallsOf(names, k) == [i \in DOMAIN names |-> ToolCall(names[i], 10 * k + i, NoArgs)]

\* a call the graph makes on the tool server through session.call_tool
\* available is the external token the backend holds in this pass;
\* external_token is the argument of that name in the call, NULL when absent;
\* failed tells that session.call_tool raised
ServerCall(by, call, after, available, external_token, failed) ==
    [by |-> by, name |-> call.name, id |-> call.id, args |-> call.args, after |-> after,
     available |-> available, external_token |-> external_token, failed |-> failed]

-----------------------------------------------------------------------------
(* Token Manager (auth/manager.py) *)

Truthy(token) == token # NULL /\ token # ""

\* a dict that is empty, and the metadata the login flow stores with a token
EmptyDict == "{}"
LoginMetadata == "{source: login}"

get_token_managed_first(external_token) ==
    IF ~tm_enabled THEN external_token
    ELSE IF tm_token # NULL THEN tm_token
    ELSE external_token

get_token(external_token) ==
    IF Truthy(external_token) THEN external_token
    ELSE IF ~tm_enabled THEN NULL
    ELSE tm_token

has_token(external_token) ==
    IF Truthy(external_token) THEN TRUE
    ELSE IF ~tm_enabled THEN FALSE
    ELSE tm_token # NULL

set_token_unguarded(token) == token

\* set_token: the token the manager holds afterwards
set_token(token) == IF ~tm_enabled THEN tm_token ELSE token

\* set_token: the metadata the manager holds afterwards (`metadata or {}`)
set_token_metadata(metadata) ==
    IF ~tm_enabled THEN tm_metadata
    ELSE IF metadata = NULL \/ metadata = EmptyDict THEN EmptyDict
    ELSE metadata

clear_token_kept == tm_token

\* clear_token: the token the manager holds afterwards
clear_token == IF ~tm_enabled THEN tm_token ELSE NULL

\* clear_token: the metadata the manager holds afterwards
clear_token_metadata == IF ~tm_enabled THEN tm_metadata ELSE EmptyDict

\* clear_token: what it returns (had_token)
clear_token_returns == IF ~tm_enabled THEN FALSE ELSE tm_token # NULL

is_enabled == tm_enabled

-----
(* Gateway client (api/client.py) *)

BASE_URL == "https://sandbox.sasaipaymentgateway.com"

RateCalculationEndpoint == <<BASE_URL, "/remittance/v1/rate/calculation">>
TransactionEndpoint == <<BASE_URL, "/remittance/v1/transaction">>

\* the methods class SasaiAPIClient defines
SasaiAPIClientMethods ==
    {"make_authenticated_request", "_handle_response", "get", "post", "put", "delete",
     "patch", "get_recipient_list", "calculate_rate", "execute_transaction"}

\* None for an integer attribute (status_code, retry_after)
NoInt == -1

NoError ==
    [kind |-> NULL, status_code |-> NoInt, endpoint |-> <<>>, message |-> <<>>,
     field |-> NULL, retry_after |-> NoInt]

TypedError_no_endpoint(kind, status_code, endpoint, message) ==
    [kind |-> kind, status_code |-> status_code, endpoint |-> <<>>, message |-> message,
     field |-> NULL, retry_after |-> NoInt]

\* an exception with the attributes SasaiAPIError.__init__ sets; status_code
\* and endpoint default to None
TypedError(kind, status_code, endpoint, message) ==
    [kind |-> kind, status_code |-> status_code, endpoint |-> endpoint, message |-> message,
     field |-> NULL, retry_after |-> NoInt]

NoData == [calculationId |-> NULL, transactionId |-> NULL, transactionUrl |-> NULL]

\* what the gateway answers to one HTTP request
HttpStatuses == {200, 204, 302, 400, 401, 404, 429, 500, 503}
CalcIds == {"calc-1", "calc-2"}

\* an HTTP response: status, the kind of body (none, whitespace, text that is
\* not JSON, a JSON object), the object a JSON body parses to, the "field" a
\* JSON error body names and the retry-after header
Response(status, body, data, field, retry_after) ==
    [kind |-> "response", status |-> status, body |-> body, data |-> data,
     field |-> field, retry_after |-> retry_after]

\* no answer: nothing was asked
NoResponse ==
    [kind |-> NULL, status |-> 0, body |-> "empty", data |-> NoData, field |-> NULL,
     retry_after |-> "absent"]

HttpOutcomes ==
    {Response(st, b, NoData, NULL, "absent") :
        st \in HttpStatuses, b \in {"empty", "blank", "text", "json"}}
    \cup {Response(st, "json", [NoData EXCEPT !.calculationId = c], NULL, "absent") :
        st \in HttpStatuses, c \in CalcIds}
    \cup {Response(400, "json", NoData, "amount", "absent")}
    \cup {Response(429, "empty", NoData, NULL, h) : h \in {"30", "soon"}}
    \cup {[kind |-> k, status |-> 0, body |-> "empty", data |-> NoData,
           field |-> NULL, retry_after |-> "absent"] : k \in {"timeout", "network"}}

\* response.text
ResponseText(response) ==
    CASE response.body = "empty" -> ""
      [] response.body = "blank" -> "  "
      [] response.body = "text" -> "OK"
      [] response.body = "json" -> "{...}"

\* str.strip
Strip(text) == IF text = "  " THEN "" ELSE text

ParseInt_lenient(header) == IF header = "30" THEN 30 ELSE 0

\* int(header): the integer, or None where int() raises ValueError
ParseInt(header) == IF header = "30" THEN 30 ELSE NoInt

\* the outcome of a client call: the envelope it returns or the error it raises
Returned(envelope) == [raised |-> NoError, envelope |-> envelope]
Raised(error) ==
    [raised |-> error,
     envelope |-> [success |-> FALSE, data |-> "none", json |-> NoData, message |-> NULL,
                   status_code |-> NoInt]]

_handle_response_error_envelope(response, endpoint) ==
    Returned([success |-> 200 <= response.status /\ response.status < 300,
              data |-> IF response.body = "json" THEN "json" ELSE "message",
              json |-> response.data,
              message |-> IF response.body = "json" THEN NULL ELSE ResponseText(response),
              status_code |-> response.status])

_handle_response(response, endpoint) ==
    IF 200 <= response.status /\ response.status < 300
    THEN LET empty == Strip(ResponseText(response)) = ""
             parsed == response.body = "json"     \* response.json() succeeds
         IN  Returned([success |-> TRUE,
                       data |-> IF empty THEN "none"
                                ELSE IF parsed THEN "json"
                                ELSE "message",
                       json |-> IF ~empty /\ parsed THEN response.data ELSE NoData,
                       message |-> IF ~empty /\ ~parsed THEN ResponseText(response) ELSE NULL,
                       status_code |-> response.status])
    ELSE IF response.status = 401
    THEN Raised(TypedError("TokenExpiredError", response.status, endpoint,
                           <<"Authentication failed. Token may be expired.">>))
    ELSE IF response.status = 400
    THEN Raised([TypedError("ValidationError", response.status, endpoint, <<"Bad request: ">>)
                    EXCEPT !.field = IF response.body = "json" THEN response.field ELSE NULL])
    ELSE IF response.status = 404
    THEN Raised(TypedError("SasaiAPIError", response.status, endpoint,
                           <<"API endpoint not found: ">> \o endpoint))
    ELSE IF response.status = 429
    THEN Raised([TypedError("RateLimitError", response.status, endpoint,
                            <<"Rate limit exceeded.">>)
                    EXCEPT !.retry_after = IF response.retry_after # "absent"
                                           THEN ParseInt(response.retry_after)
                                           ELSE NoInt])
    ELSE IF response.status >= 500
    THEN Raised(TypedError("ServerError", response.status, endpoint,
                           <<"Server error: Payment gateway is experiencing issues">>))
    ELSE Raised(TypedError("SasaiAPIError", response.status, endpoint,
                           <<"API request failed: ">>))

\* the request as it goes on the wire: the Authorization header is set only
\* `if token and require_auth`
HttpRequest(method, endpoint, token, json_data) ==
    [method |-> method, endpoint |-> endpoint, bearer |-> token, body |-> json_data]

HttpMethods == {"GET", "POST", "PUT", "DELETE", "PATCH"}

\* str.upper
Upper(method) ==
    CASE method = "get" -> "GET"
      [] method = "post" -> "POST"
      [] OTHER -> method

make_authenticated_request_unchecked(method, endpoint, token, json_data, require_auth, http) ==
    [requests |-> <<HttpRequest(Upper(method), endpoint, token, json_data)>>,
     outcome |-> IF http.kind = "response" THEN _handle_response(http, endpoint)
                 ELSE Raised(TypedError("NetworkError", NoInt, endpoint, <<"Network error: ">>))]

\* make_authenticated_request: the requests it puts on the wire and its
\* outcome, given the gateway's answer
make_authenticated_request(method, endpoint, token, json_data, require_auth, http) ==
    IF require_auth /\ ~Truthy(token)
    THEN [requests |-> <<>>,
          outcome |-> Raised(TypedError("AuthenticationError", NoInt, <<>>,
                                        <<"Authentication token required.">>))]
    ELSE IF Upper(method) \notin HttpMethods
    THEN [requests |-> <<>>,
          outcome |-> Raised(TypedError("ValidationError", NoInt, <<>>,
                                        <<"Unsupported HTTP method: ">>))]
    ELSE [requests |-> <<HttpRequest(Upper(method), endpoint,
                                     IF Truthy(token) /\ require_auth THEN token ELSE NULL,
                                     json_data)>>,
          outcome |-> IF http.kind = "timeout"
                      THEN Raised(TypedError("APITimeoutError", NoInt, endpoint,
                                             <<"Request timeout: ">>))
                      ELSE IF http.kind = "network"
                      THEN Raised(TypedError("NetworkError", NoInt, endpoint,
                                             <<"Network error: ">>))
                      ELSE _handle_response(http, endpoint)]

\* get / post: require_auth keeps its default, True
get(endpoint, token, params, http) ==
    make_authenticated_request("GET", endpoint, token, params, TRUE, http)

post_resend(endpoint, token, json_data, http) ==
    LET r == make_authenticated_request("POST", endpoint, token, json_data, TRUE, http)
    IN  IF r.outcome.raised.kind = "TokenExpiredError"
        THEN [r EXCEPT !.requests = @ \o @]
        ELSE r

post(endpoint, token, json_data, http) ==
    make_authenticated_request("POST", endpoint, token, json_data, TRUE, http)

\* an exception that is not a gateway error (TypeError, AttributeError)
PythonError(kind, message) == TypedError(kind, NoInt, <<>>, message)

\* what a client method hands back: requests sent, the error raised (if any)
\* and the data returned (if none)
ClientResult(requests, raised, data, json) ==
    [requests |-> requests, raised |-> raised, data |-> data, json |-> json]

\* SasaiAPIClient.calculate_rate
calculate_rate(token, payload, http) ==
    LET r == post(RateCalculationEndpoint, token, payload, http)
    IN  IF r.outcome.raised # NoError
        THEN ClientResult(r.requests, r.outcome.raised, "none", NoData)
        ELSE IF r.outcome.envelope.data = "none"
        \* data is None: data.get('sendingAmount') in the log line raises
        THEN ClientResult(r.requests,
                          PythonError("AttributeError",
                                      <<"'NoneType' object has no attribute 'get'">>),
                          "none", NoData)
        ELSE ClientResult(r.requests, NoError, r.outcome.envelope.data, r.outcome.envelope.json)

\* SasaiAPIClient.execute_transaction
execute_transaction(token, payload, http) ==
    LET r == post(TransactionEndpoint, token, payload, http)
    IN  IF r.outcome.raised # NoError
        THEN ClientResult(r.requests, r.outcome.raised, "none", NoData)
        ELSE IF r.outcome.envelope.data = "none"
        THEN ClientResult(r.requests,
                          PythonError("AttributeError",
                                      <<"'NoneType' object has no attribute 'get'">>),
                          "none", NoData)
        ELSE ClientResult(r.requests, NoError, r.outcome.envelope.data, r.outcome.envelope.json)

\* client.<name>(...) for a name the class does not define: the attribute
\* lookup raises before anything is sent
MissingMethod(name) ==
    ClientResult(<<>>,
                 PythonError("AttributeError",
                             <<"'SasaiAPIClient' object has no attribute '", name, "'">>),
                 "none", NoData)

-----------------------------------------------------------------------------
(* Authentication flow (auth/tools.py) *)

Tokens == {"tok-1", "tok-2"}

\* how the login / PIN verification / refresh sequence ends
AuthOutcomes ==
    {"pin_verification", "refresh_token", "login_failed", "no_guest_token",
     "pin_no_token", "refresh_failed", "refresh_no_token", "no_refresh_token", "timeout",
     "network", "unexpected"}

\* Python's binding of keyword arguments to a function's parameters: the
\* TypeError it raises, or NoError
BindKeywords(params, required, kwargs) ==
    IF ~(kwargs \subseteq params)
    THEN PythonError("TypeError", <<"got an unexpected keyword argument">>)
    ELSE IF ~(required \subseteq kwargs)
    THEN PythonError("TypeError", <<"missing required positional argument">>)
    ELSE NoError

\* generate_authentication_token(): takes no parameter
generate_authentication_token_params == {}

\* generate_authentication_token: the error it raises (NoError on success)
generate_authentication_token(outcome) ==
    CASE outcome \in {"pin_verification", "refresh_token"} -> NoError
      [] outcome = "login_failed" ->
            TypedError("AuthenticationError", NoInt, <<>>, <<"Login failed with status ">>)
      [] outcome = "no_guest_token" ->
            TypedError("AuthenticationError", NoInt, <<>>, <<"No guest token received from login">>)
      [] outcome = "pin_no_token" ->
            TypedError("AuthenticationError", NoInt, <<>>,
                       <<"No access token in PIN verification response">>)
      [] outcome = "refresh_failed" ->
            TypedError("AuthenticationError", NoInt, <<>>, <<"Token refresh failed: ">>)
      [] outcome = "no_refresh_token" ->
            TypedError("AuthenticationError", NoInt, <<>>,
                       <<"PIN verification failed and no refresh token available. PIN error: ">>)
      [] outcome = "timeout" ->
            TypedError("APITimeoutError", NoInt, <<>>, <<"Token generation timeout: ">>)
      [] outcome = "network" ->
            TypedError("NetworkError", NoInt, <<>>, <<"Network error during token generation: ">>)
      [] outcome = "refresh_no_token" ->
            TypedError("AuthenticationError", NoInt, <<>>,
                       <<"No access token in refresh response">>)
      [] outcome = "unexpected" ->
            TypedError("SasaiAPIError", NoInt, <<>>,
                       <<"Unexpected error during token generation: ">>)

-----------------------------------------------------------------------------
(* Transaction pipeline stages (remittance/quotes.py, payments.py,
   transactions.py) and the tools that wrap them (remittance/countries.py) *)

NoResult ==
    [returned |-> FALSE, success |-> "absent", error |-> <<>>, calculationId |-> NULL,
     transactionId |-> NULL, transactionUrl |-> NULL, productId |-> 0,
     paymentMethodCode |-> NULL, actionRequired |-> FALSE]

\* {"success": False, "error": f"{prefix}{str(e)}"}
Failure(prefix, e) ==
    [NoResult EXCEPT !.returned = TRUE, !.success = "false", !.error = <<prefix>> \o e.message]

\* the dict a client method returned, as the stage hands it on
DataResult(json) ==
    [NoResult EXCEPT !.returned = TRUE, !.calculationId = json.calculationId,
                     !.transactionId = json.transactionId,
                     !.transactionUrl = json.transactionUrl]

\* what one stage did: the requests it sent, the error its client call raised,
\* the error that escaped to its caller, and the dict it returned
Stage(requests, clientError, raised, result) ==
    [requests |-> requests, clientError |-> clientError, raised |-> raised, result |-> result]

RateCalculationPayload(product_id) ==
    [sendingCountryId |-> 204, receivingCountryId |-> 246, sendingCurrencyId |-> 181,
     receivingCurrencyId |-> 153, amount |-> "100.00", productId |-> product_id,
     receive |-> FALSE, paymentMethodId |-> "5"]

TransactionPayload(beneficiary_id, calculation_id) ==
    [reasonForTransfer |-> "SOWF", sourceOfFunds |-> "SAL", beneficiaryId |-> beneficiary_id,
     calculationId |-> calculation_id, paymentMethodId |-> "10-I"]

\* the token-less branch shared by the stages:
\* generate_authentication_token(ctx=ctx) inside the stage's try
TokenlessStage(prefix) ==
    Stage(<<>>, NoError, NoError,
          Failure(prefix, BindKeywords(generate_authentication_token_params, {}, {"ctx"})))

\* the rate-lock stage with a retry: a failed client call is sent once more
calculate_remittance_quote_resend(product_id, http) ==
    LET token == get_token(NULL)
    IN  IF ~Truthy(token)
        THEN TokenlessStage("Failed to calculate rate: ")
        ELSE LET response == calculate_rate(token, RateCalculationPayload(product_id), http)
             IN  IF response.raised # NoError
                 THEN Stage(response.requests \o response.requests, response.raised, NoError,
                            Failure("Failed to calculate rate: ", response.raised))
                 ELSE Stage(response.requests, NoError, NoError, DataResult(response.json))

\* quotes.calculate_remittance_quote (Step 2, rate-lock)
calculate_remittance_quote(product_id, http) ==
    LET token == get_token(NULL)
    IN  IF ~Truthy(token)
        THEN TokenlessStage("Failed to calculate rate: ")
        ELSE LET response == calculate_rate(token, RateCalculationPayload(product_id), http)
             IN  IF response.raised # NoError
                 THEN Stage(response.requests, response.raised, NoError,
                            Failure("Failed to calculate rate: ", response.raised))
                 ELSE Stage(response.requests, NoError, NoError, DataResult(response.json))

\* quotes.generate_remittance_quote_from_calculation (Step 3, quote); the
\* payload it builds goes to client.generate_quote, which SasaiAPIClient
\* does not define
generate_remittance_quote_from_calculation(beneficiary_id, calculation_id) ==
    LET token == get_token(NULL)
    IN  IF ~Truthy(token)
        THEN TokenlessStage("Failed to generate quote: ")
        ELSE LET payload == TransactionPayload(beneficiary_id, calculation_id)
                 response == MissingMethod("generate_quote")
             IN  Stage(response.requests, response.raised, NoError,
                       Failure("Failed to generate quote: ", response.raised))

\* payments.get_payment_options (Step 4a); client.get_payment_options is not
\* defined by SasaiAPIClient either
fetch_payment_options ==
    LET token == get_token(NULL)
    IN  IF ~Truthy(token)
        THEN TokenlessStage("Failed to get payment options: ")
        ELSE LET response == MissingMethod("get_payment_options")
             IN  Stage(response.requests, response.raised, NoError,
                       Failure("Failed to get payment options: ", response.raised))

\* transactions.execute_remittance_transaction: its parameters
execute_tx_params ==
    {"beneficiary_id", "calculation_id", "payment_method_id", "reason_for_transfer",
     "source_of_funds", "ctx"}

execute_tx_required == {"beneficiary_id", "calculation_id"}

\* transactions.execute_remittance_transaction: its body
execute_tx(beneficiary_id, calculation_id, http) ==
    LET token == get_token(NULL)
    IN  IF ~Truthy(token)
        THEN TokenlessStage("Failed to execute transaction: ")
        ELSE LET response == execute_transaction(token,
                                 TransactionPayload(beneficiary_id, calculation_id), http)
             IN  IF response.raised # NoError
                 THEN Stage(response.requests, response.raised, NoError,
                            Failure("Failed to execute transaction: ", response.raised))
                 ELSE Stage(response.requests, NoError, NoError, DataResult(response.json))

-----------------------------------------------------------------------------
(* The pipeline tools of the tool server (remittance/countries.py) *)

\* the enrichment without the test for an error
Enrichable_always(result) == result.returned

\* `if result and not result.get("error")`
Enrichable(result) == result.returned /\ result.error = <<>>

\* tool calculate_rate_and_lock
calculate_rate_and_lock(product_id, http) ==
    LET stage == calculate_remittance_quote(product_id, http)
    IN  IF Enrichable(stage.result)
        THEN [stage EXCEPT !.result.productId = product_id]
        ELSE stage

\* tool generate_remittance_quote
generate_remittance_quote(beneficiary_id, calculation_id) ==
    LET stage == generate_remittance_quote_from_calculation(beneficiary_id, calculation_id)
    IN  IF Enrichable(stage.result)
        THEN [stage EXCEPT !.result.calculationId = calculation_id]
        ELSE stage

\* tool get_payment_options
get_payment_options == fetch_payment_options

\* a keyword argument's value once bound, the parameter's default otherwise
Bound(kwargs, name, default) == IF name \in DOMAIN kwargs THEN kwargs[name] ELSE default

\* tool execute_remittance_transaction: calls execute_tx with the keywords
\* transaction_id and payment_method_code, outside any try
execute_remittance_transaction(transaction_id, payment_method_code, http) ==
    LET kwargs == [transaction_id |-> transaction_id,
                   payment_method_code |-> payment_method_code]
        bind == BindKeywords(execute_tx_params, execute_tx_required, DOMAIN kwargs)
    IN  IF bind # NoError
        THEN Stage(<<>>, NoError, bind, NoResult)
        ELSE LET stage == execute_tx(Bound(kwargs, "beneficiary_id", NULL),
                                     Bound(kwargs, "calculation_id", NULL), http)
             IN  IF Enrichable(stage.result)
                 THEN [stage EXCEPT
                         !.result.transactionId = transaction_id,
                         !.result.paymentMethodCode = payment_method_code,
                         !.result.actionRequired = Truthy(stage.result.transactionUrl)]
                 ELSE stage

-----------------------------------------------------------------------------
(* The tool server, driven by any sequence of tool calls *)

ProductIds == {629, 12}

\* the recipient of the tools' documentation: top-level id and two accounts
Recipient ==
    [beneficiaryId |-> "12345",
     accounts |-> {[id |-> "77192529", linkedProducts |-> {629}],
                   [id |-> "77192530", linkedProducts |-> {12}]}]

BeneficiaryIds == {Recipient.beneficiaryId} \cup {a.id : a \in Recipient.accounts}

CalculationIds == CalcIds \cup {"", NULL, "calc-9"}
TransactionIds == {"71866575"}
PaymentMethodCodes == {"eft", "card"}

PipelineArgs(beneficiary_id, calculation_id, product_id, transaction_id, payment_method_code) ==
    [beneficiary_id |-> beneficiary_id, calculation_id |-> calculation_id,
     product_id |-> product_id, transaction_id |-> transaction_id,
     payment_method_code |-> payment_method_code]

Call(tool, args, stage) ==
    [tool |-> tool, args |-> args, requests |-> stage.requests,
     clientError |-> stage.clientError, raised |-> stage.raised, result |-> stage.result,
     external_token |-> NULL, answer |-> NoResponse]

\* a call as the graph makes it: `if external_token:
\* tool_args["external_token"] = external_token`, for every tool
CallWith(tool, args, external_token, stage) ==
    [Call(tool, args, stage) EXCEPT !.external_token = external_token]

\* the gateway's answer to the request of a call, if it sent one
Answer(stage, http) == IF stage.requests = <<>> THEN NoResponse ELSE http

\* the call carries an argument the tool does not declare and the framework
\* refuses it: the tool's body does not run
Refused(external_token) == Truthy(external_token) /\ extra_arguments = "rejected"

RefusedCall ==
    Stage(<<>>, NoError, PythonError("ToolError", <<"unexpected keyword argument">>), NoResult)

NoCall == Call(NULL, NoArgs, Stage(<<>>, NoError, NoError, NoResult))

ClientOp(method, token, require_auth, http, r) ==
    [method |-> method, token |-> token, require_auth |-> require_auth, http |-> http,
     requests |-> r.requests, outcome |-> r.outcome]

NoClientOp ==
    ClientOp(NULL, NULL, FALSE, NoResponse, [requests |-> <<>>, outcome |-> Raised(NoError)])

\* a Token Manager method call: its arguments, what it returned, the managed
\* token before it, and whether clear_token ran with no set_token since
TmOp(op, argument, returned_token, returned_bool, before, cleared) ==
    [op |-> op, argument |-> argument, returned_token |-> returned_token,
     returned_bool |-> returned_bool, before |-> before, cleared |-> cleared]

NoTmOp == TmOp(NULL, NULL, NULL, FALSE, [token |-> NULL, metadata |-> EmptyDict], FALSE)

\* an answer of the gateway to one request of the login flow: a response with
\* its status, kind of body and the tokens a JSON body carries, or the
\* httpx exception raised instead
AuthResponse(kind, status, body, accessToken, refreshToken) ==
    [kind |-> kind, status |-> status, body |-> body, accessToken |-> accessToken,
     refreshToken |-> refreshToken]

NoAuthResponse == AuthResponse(NULL, 0, "empty", NULL, NULL)

\* what one run of generate_authentication_token did: the answers the gateway
\* had for its three requests, the requests it sent, how it ended, and the
\* token and token_source of the dict it returned
AuthRun(login, pin, refresh, requests, outcome, token, source) ==
    [login |-> login, pin |-> pin, refresh |-> refresh, requests |-> requests,
     outcome |-> outcome, token |-> token, source |-> source]

NoAuthRun == AuthRun(NoAuthResponse, NoAuthResponse, NoAuthResponse, <<>>, NULL, NULL, NULL)

InitAux ==
    /\ results = <<>>
    /\ inflight = {}
    /\ authRun = NoAuthRun
    /\ sasai_token_context = NULL
    /\ httpRequests = {}
    /\ sessions = <<>>

InitServer ==
    /\ tm_enabled \in BOOLEAN
    /\ tm_token = NULL
    /\ lastCall = NoCall
    /\ calls = 0
    /\ issuedCalcs = {}
    /\ clientOp = NoClientOp
    /\ tm_metadata = EmptyDict
    /\ tmOp = NoTmOp
    /\ extra_arguments \in {"ignored", "rejected"}

GraphIdle ==
    /\ messages = <<>>
    /\ current_workflow = NULL
    /\ workflow_step = NULL
    /\ node = END
    /\ toolServerCalls = <<>>
    /\ llmCalls = 0
    /\ initial_state = State(<<>>, NULL, NULL)

InitPipeline == GraphIdle /\ InitServer /\ InitAux

CalculateRateAndLock(product_id, external_token, http) ==
    /\ calls < MaxCalls
    /\ LET stage == IF Refused(external_token) THEN RefusedCall
                    ELSE calculate_rate_and_lock(product_id, http)
       IN  /\ lastCall' = [CallWith("calculate_rate_and_lock",
                                    PipelineArgs(NULL, NULL, product_id, NULL, NULL),
                                    external_token, stage)
                              EXCEPT !.answer = Answer(stage, http)]
           /\ issuedCalcs' =
                IF stage.result.returned /\ stage.result.calculationId # NULL
                THEN issuedCalcs \cup {[calculationId |-> stage.result.calculationId,
                                        productId |-> product_id]}
                ELSE issuedCalcs
    /\ calls' = calls + 1
    /\ UNCHANGED <<graphVars, auxVars, otherVars, tm_token, tm_metadata>>

GenerateRemittanceQuote(beneficiary_id, calculation_id, external_token) ==
    /\ calls < MaxCalls
    /\ lastCall' = CallWith("generate_remittance_quote",
                            PipelineArgs(beneficiary_id, calculation_id, 0, NULL, NULL),
                            external_token,
                            IF Refused(external_token) THEN RefusedCall
                            ELSE generate_remittance_quote(beneficiary_id, calculation_id))
    /\ calls' = calls + 1
    /\ UNCHANGED <<graphVars, auxVars, otherVars, tm_token, tm_metadata, issuedCalcs>>

GetPaymentOptions(external_token) ==
    /\ calls < MaxCalls
    /\ lastCall' = CallWith("get_payment_options", NoArgs, external_token,
                            IF Refused(external_token) THEN RefusedCall
                            ELSE get_payment_options)
    /\ calls' = calls + 1
    /\ UNCHANGED <<graphVars, auxVars, otherVars, tm_token, tm_metadata, issuedCalcs>>

ExecuteRemittanceTransaction(transaction_id, payment_method_code, external_token, http) ==
    /\ calls < MaxCalls
    /\ lastCall' = CallWith("execute_remittance_transaction",
                            PipelineArgs(NULL, NULL, 0, transaction_id, payment_method_code),
                            external_token,
                            IF Refused(external_token) THEN RefusedCall
                            ELSE execute_remittance_transaction(transaction_id,
                                                                payment_method_code, http))
    /\ calls' = calls + 1
    /\ UNCHANGED <<graphVars, auxVars, otherVars, tm_token, tm_metadata, issuedCalcs>>

\* tool generate_wallet_authentication_token
GenerateWalletAuthenticationToken(outcome, token) ==
    /\ calls < MaxCalls
    /\ LET error == generate_authentication_token(outcome)
       IN  /\ tm_token' = IF error = NoError THEN set_token(token) ELSE tm_token
           /\ tm_metadata' = IF error = NoError THEN set_token_metadata(LoginMetadata)
                             ELSE tm_metadata
           /\ lastCall' = Call("generate_wallet_authentication_token", NoArgs,
                               Stage(<<>>, NoError, error,
                                     IF error = NoError
                                     THEN [NoResult EXCEPT !.returned = TRUE,
                                                           !.success = "true"]
                                     ELSE NoResult))
    /\ calls' = calls + 1
    /\ UNCHANGED <<graphVars, auxVars, otherVars, issuedCalcs>>

\* tool clear_wallet_token
ClearWalletToken ==
    /\ calls < MaxCalls
    /\ tm_token' = clear_token
    /\ tm_metadata' = clear_token_metadata
    /\ lastCall' = Call("clear_wallet_token", NoArgs,
                        Stage(<<>>, NoError, NoError,
                              [NoResult EXCEPT !.returned = TRUE, !.success = "true"]))
    /\ calls' = calls + 1
    /\ UNCHANGED <<graphVars, auxVars, otherVars, issuedCalcs>>

\* the pipeline called with the arguments its tools declare
NextPipeline ==
    \/ \E product_id \in ProductIds, http \in HttpOutcomes :
         CalculateRateAndLock(product_id, NULL, http)
    \/ \E beneficiary_id \in BeneficiaryIds, calculation_id \in CalculationIds :
         GenerateRemittanceQuote(beneficiary_id, calculation_id, NULL)
    \/ GetPaymentOptions(NULL)
    \/ \E transaction_id \in TransactionIds, payment_method_code \in PaymentMethodCodes,
          http \in HttpOutcomes :
         ExecuteRemittanceTransaction(transaction_id, payment_method_code, NULL, http)
    \/ \E outcome \in AuthOutcomes, token \in Tokens :
         GenerateWalletAuthenticationToken(outcome, token)
    \/ ClearWalletToken

SpecPipeline == InitPipeline /\ [][NextPipeline]_vars

-----------------------------------------------------------------------------
(* The tools that take an external token (wallet/balance.py,
   remittance/countries.py) and the recipient list (remittance/recipients.py) *)

WalletBalanceEndpoint == <<BASE_URL, "/bff/v1/wallet/profile/balance">>
ExchangeRateEndpoint == <<BASE_URL, "/remittance/v1/product/exchange/rate">>
RecipientListEndpoint == <<BASE_URL, "/remittance/v1/recipient/list">>

\* what a tool leaves behind: its stage, and the token and metadata the
\* manager holds afterwards
ToolRun(stage, token, metadata) == [stage |-> stage, token |-> token, metadata |-> metadata]

\* the token a tool settled on: the token, the exception raised instead, and
\* the manager's token and metadata afterwards
TokenChoice(token, raised, tm_token_after, tm_metadata_after) ==
    [token |-> token, raised |-> raised, tm_token |-> tm_token_after,
     tm_metadata |-> tm_metadata_after]

\* generate_authentication_token() called from a tool: on success the token
\* is handed to set_token and returned in the dict
Authenticated(outcome, fresh) ==
    LET error == generate_authentication_token(outcome)
    IN  IF error # NoError
        THEN TokenChoice(NULL, error, tm_token, tm_metadata)
        ELSE TokenChoice(fresh, NoError, set_token(fresh), set_token_metadata(LoginMetadata))

\* get_wallet_balance, lines 51-68
WalletToken(external_token, auto_generate_token, outcome, fresh) ==
    IF Truthy(external_token)
    THEN TokenChoice(external_token, NoError, tm_token, tm_metadata)
    ELSE IF is_enabled
    THEN IF ~has_token(NULL) /\ auto_generate_token
         THEN LET auth == Authenticated(outcome, fresh)
              IN  IF auth.raised # NoError THEN auth
                  ELSE [auth EXCEPT !.token = auth.tm_token]    \* token_manager.get_token()
         ELSE TokenChoice(get_token(NULL), NoError, tm_token, tm_metadata)
    ELSE TokenChoice(NULL,
                     PythonError("Exception",
                                 <<"Token manager is disabled. Please provide external_token parameter.">>),
                     tm_token, tm_metadata)

\* get_exchange_rate, lines 140-155
ExchangeRateToken(external_token, auto_generate_token, outcome, fresh) ==
    IF Truthy(external_token)
    THEN TokenChoice(external_token, NoError, tm_token, tm_metadata)
    ELSE IF tm_enabled
    THEN IF auto_generate_token /\ ~Truthy(get_token(NULL))
         THEN LET auth == Authenticated(outcome, fresh)
              IN  IF auth.raised # NoError THEN auth
                  ELSE [auth EXCEPT !.token = auth.tm_token]
         ELSE TokenChoice(get_token(NULL), NoError, tm_token, tm_metadata)
    ELSE TokenChoice(NULL,
                     PythonError("Exception",
                                 <<"Token manager disabled. Provide external_token.">>),
                     tm_token, tm_metadata)

\* the envelope of a successful call, as a tool returns it
EnvelopeResult == [NoResult EXCEPT !.returned = TRUE, !.success = "true"]

\* tool get_wallet_balance: nothing is caught, the client's errors escape
get_wallet_balance(external_token, auto_generate_token, outcome, fresh, http) ==
    LET choice == WalletToken(external_token, auto_generate_token, outcome, fresh)
    IN  IF choice.raised # NoError
        THEN ToolRun(Stage(<<>>, NoError, choice.raised, NoResult),
                     choice.tm_token, choice.tm_metadata)
        ELSE LET r == make_authenticated_request("GET", WalletBalanceEndpoint, choice.token,
                                                 NULL, TRUE, http)
             IN  ToolRun(IF r.outcome.raised # NoError
                         THEN Stage(r.requests, r.outcome.raised, r.outcome.raised, NoResult)
                         ELSE Stage(r.requests, NoError, NoError, EnvelopeResult),
                         choice.tm_token, choice.tm_metadata)

\* tool get_exchange_rate: result.get('data', {}).get('items', []) fails on a
\* body with no content
get_exchange_rate(external_token, auto_generate_token, outcome, fresh, http) ==
    LET choice == ExchangeRateToken(external_token, auto_generate_token, outcome, fresh)
    IN  IF choice.raised # NoError
        THEN ToolRun(Stage(<<>>, NoError, choice.raised, NoResult),
                     choice.tm_token, choice.tm_metadata)
        ELSE LET r == make_authenticated_request("POST", ExchangeRateEndpoint, choice.token,
                                                 NULL, TRUE, http)
             IN  ToolRun(IF r.outcome.raised # NoError
                         THEN Stage(r.requests, r.outcome.raised, r.outcome.raised, NoResult)
                         ELSE IF r.outcome.envelope.data = "none"
                         THEN Stage(r.requests, NoError,
                                    PythonError("AttributeError",
                                                <<"'NoneType' object has no attribute 'get'">>),
                                    NoResult)
                         ELSE Stage(r.requests, NoError, NoError, EnvelopeResult),
                         choice.tm_token, choice.tm_metadata)

\* SasaiAPIClient.get_recipient_list: the data of the envelope
client_get_recipient_list(token, http) ==
    LET r == get(RecipientListEndpoint, token, NULL, http)
    IN  IF r.outcome.raised # NoError
        THEN ClientResult(r.requests, r.outcome.raised, "none", NoData)
        ELSE IF r.outcome.envelope.data = "none"
        THEN ClientResult(r.requests,
                          PythonError("AttributeError",
                                      <<"'NoneType' object has no attribute 'keys'">>),
                          "none", NoData)
        ELSE ClientResult(r.requests, NoError, r.outcome.envelope.data,
                          r.outcome.envelope.json)

\* recipients.get_recipient_list: takes the managed token and, with none,
\* authenticates by itself and uses the token of the result
fetch_recipients(outcome, fresh, http) ==
    LET held == get_token(NULL)
        choice == IF ~Truthy(held) THEN Authenticated(outcome, fresh)
                  ELSE TokenChoice(held, NoError, tm_token, tm_metadata)
    IN  IF choice.raised # NoError
        THEN ToolRun(Stage(<<>>, NoError, NoError,
                           Failure("Failed to fetch recipients", choice.raised)),
                     choice.tm_token, choice.tm_metadata)
        ELSE LET response == client_get_recipient_list(choice.token, http)
             IN  ToolRun(IF response.raised # NoError
                         THEN Stage(response.requests, response.raised, NoError,
                                    Failure("Failed to fetch recipients", response.raised))
                         ELSE Stage(response.requests, NoError, NoError,
                                    [NoResult EXCEPT !.returned = TRUE]),
                         choice.tm_token, choice.tm_metadata)

\* tool get_recipient_list
get_recipient_list(outcome, fresh, http) == fetch_recipients(outcome, fresh, http)

-----------------------------------------------------------------------------
(* The tool server as the graph calls it: any tool, with or without an
   external token *)

\* how the login sequence run from inside a tool ends
LoginOutcomes == {"pin_verification", "login_failed", "timeout"}

\* the gateway's answers to the tools
ServerAnswers ==
    {Response(200, "json", [NoData EXCEPT !.calculationId = "calc-1"], NULL, "absent"),
     Response(200, "empty", NoData, NULL, "absent"),
     Response(401, "json", NoData, NULL, "absent"),
     Response(500, "text", NoData, NULL, "absent")}

InjectedTokens == {NULL, "ext-1"}

\* a tool that declares external_token and auto_generate_token
RunTool(tool, external_token, run, http) ==
    /\ calls < MaxCalls
    /\ lastCall' = [CallWith(tool, NoArgs, external_token, run.stage)
                      EXCEPT !.answer = Answer(run.stage, http)]
    /\ tm_token' = run.token
    /\ tm_metadata' = run.metadata
    /\ calls' = calls + 1
    /\ UNCHANGED <<graphVars, auxVars, otherVars, issuedCalcs>>

GetWalletBalance(external_token, auto_generate_token, outcome, fresh, http) ==
    RunTool("get_wallet_balance", external_token,
            get_wallet_balance(external_token, auto_generate_token, outcome, fresh, http),
            http)

GetExchangeRate(external_token, auto_generate_token, outcome, fresh, http) ==
    RunTool("get_exchange_rate", external_token,
            get_exchange_rate(external_token, auto_generate_token, outcome, fresh, http),
            http)

GetRecipientList(external_token, outcome, fresh, http) ==
    RunTool("get_recipient_list", external_token,
            IF Refused(external_token)
            THEN ToolRun(RefusedCall, tm_token, tm_metadata)
            ELSE get_recipient_list(outcome, fresh, http),
            http)

NextServer ==
    \/ \E product_id \in ProductIds, external_token \in InjectedTokens,
          http \in ServerAnswers :
         CalculateRateAndLock(product_id, external_token, http)
    \/ \E beneficiary_id \in BeneficiaryIds, external_token \in InjectedTokens :
         GenerateRemittanceQuote(beneficiary_id, "calc-1", external_token)
    \/ \E external_token \in InjectedTokens : GetPaymentOptions(external_token)
    \/ \E transaction_id \in TransactionIds, external_token \in InjectedTokens,
          http \in ServerAnswers :
         ExecuteRemittanceTransaction(transaction_id, "eft", external_token, http)
    \/ \E outcome \in LoginOutcomes, token \in Tokens :
         GenerateWalletAuthenticationToken(outcome, token)
    \/ ClearWalletToken
    \/ \E external_token \in InjectedTokens, auto_generate_token \in BOOLEAN,
          outcome \in LoginOutcomes, fresh \in Tokens, http \in ServerAnswers :
         GetWalletBalance(external_token, auto_generate_token, outcome, fresh, http)
    \/ \E external_token \in InjectedTokens, auto_generate_token \in BOOLEAN,
          outcome \in LoginOutcomes, fresh \in Tokens, http \in ServerAnswers :
         GetExchangeRate(external_token, auto_generate_token, outcome, fresh, http)
    \/ \E external_token \in InjectedTokens, outcome \in LoginOutcomes, fresh \in Tokens,
          http \in ServerAnswers :
         GetRecipientList(external_token, outcome, fresh, http)

SpecServer == InitPipeline /\ [][NextServer]_vars

-----------------------------------------------------------------------------
(* The client on its own: one request after another, each with any method,
   token and require_auth, answered in any way by the gateway *)

RequestMethods == {"GET", "post", "PATCH", "TRACE"}
RequestTokens == {NULL, "", "tok-1"}

MakeAuthenticatedRequest(method, token, require_auth, http) ==
    /\ calls < MaxRequests
    /\ calls' = calls + 1
    /\ clientOp' = ClientOp(method, token, require_auth, http,
                            make_authenticated_request(method, RateCalculationEndpoint, token,
                                                       NULL, require_auth, http))
    /\ UNCHANGED <<graphVars, auxVars, tm_enabled, tm_token, tm_metadata, tmOp, extra_arguments,
                   lastCall, issuedCalcs>>

NextClient ==
    \E method \in RequestMethods, token \in RequestTokens, require_auth \in BOOLEAN,
       http \in HttpOutcomes :
        MakeAuthenticatedRequest(method, token, require_auth, http)

SpecClient == InitPipeline /\ [][NextClient]_vars

-----------------------------------------------------------------------------
(* The Token Manager on its own: any sequence of its methods *)

ManagerTokens == Tokens \cup {""}
ExternalTokens == {NULL, "", "ext-1"}
Metadatas == {NULL, EmptyDict, LoginMetadata}

Managed == [token |-> tm_token, metadata |-> tm_metadata]

SetToken(token, metadata) ==
    /\ tm_token' = set_token(token)
    /\ tm_metadata' = set_token_metadata(metadata)
    /\ tmOp' = TmOp("set_token", token, NULL, FALSE, Managed, FALSE)
    /\ UNCHANGED <<graphVars, auxVars, tm_enabled, extra_arguments, clientOp, lastCall, calls,
                   issuedCalcs>>

GetToken(external_token) ==
    /\ tmOp' = TmOp("get_token", external_token, get_token(external_token), FALSE, Managed,
                    tmOp.cleared)
    /\ UNCHANGED <<graphVars, auxVars, tm_enabled, tm_token, tm_metadata, extra_arguments, clientOp,
                   lastCall, calls, issuedCalcs>>

HasToken(external_token) ==
    /\ tmOp' = TmOp("has_token", external_token, NULL, has_token(external_token), Managed,
                    tmOp.cleared)
    /\ UNCHANGED <<graphVars, auxVars, tm_enabled, tm_token, tm_metadata, extra_arguments, clientOp,
                   lastCall, calls, issuedCalcs>>

ClearToken ==
    /\ tm_token' = clear_token
    /\ tm_metadata' = clear_token_metadata
    /\ tmOp' = TmOp("clear_token", NULL, NULL, clear_token_returns, Managed, TRUE)
    /\ UNCHANGED <<graphVars, auxVars, tm_enabled, extra_arguments, clientOp, lastCall, calls,
                   issuedCalcs>>

NextManager ==
    \/ \E token \in ManagerTokens, metadata \in Metadatas : SetToken(token, metadata)
    \/ \E external_token \in ExternalTokens : GetToken(external_token)
    \/ \E external_token \in ExternalTokens : HasToken(external_token)
    \/ ClearToken

SpecManager == InitPipeline /\ [][NextManager]_vars

-----------------------------------------------------------------------------
(* The session of the conversation graph *)

CurrentState == State(messages, current_workflow, workflow_step)

SetState(state) ==
    /\ messages' = state.messages
    /\ current_workflow' = state.current_workflow
    /\ workflow_step' = state.workflow_step

Init ==
    /\ messages = <<>>
    /\ current_workflow = NULL
    /\ workflow_step = NULL
    /\ node = END
    /\ toolServerCalls = <<>>
    /\ llmCalls = 0
    /\ initial_state = State(<<>>, NULL, NULL)
    /\ InitServer
    /\ InitAux
    /\ tm_enabled /\ extra_arguments = "ignored"   \* the tool server is not run here

\* the frontend opens the session: a pass over the graph with no user message
SessionOpen ==
    /\ node = END
    /\ messages = <<>>
    /\ node' = "detect_intent"
    /\ UNCHANGED <<messages, current_workflow, workflow_step, toolServerCalls, llmCalls>>
    /\ UNCHANGED <<initial_state, serverVars, auxVars>>

\* an inbound user message starts a pass at START -> detect_intent
UserTurn(text) ==
    /\ node = END
    /\ Len(SelectSeq(messages, IsHuman)) < MaxTurns
    /\ messages' = Append(messages, HumanMessage(text))
    /\ node' = "detect_intent"
    /\ UNCHANGED <<current_workflow, workflow_step, toolServerCalls, llmCalls>>
    /\ UNCHANGED <<initial_state, serverVars, auxVars>>

DetectIntent ==
    /\ node = "detect_intent"
    /\ LET state == detect_intent_node(CurrentState)
       IN  /\ SetState(state)
           /\ node' = route_after_intent(state)
    /\ UNCHANGED <<toolServerCalls, llmCalls>>
    /\ UNCHANGED <<initial_state, serverVars, auxVars>>

\* a guided workflow node with an edge back to itself
GuidedWorkflow_loops(name) ==
    /\ node = name
    /\ SetState(WorkflowNode(name, CurrentState))
    /\ node' = name
    /\ UNCHANGED <<toolServerCalls, llmCalls>>
    /\ UNCHANGED <<initial_state, serverVars, auxVars>>

\* a guided workflow node, then the edge to chat_node
GuidedWorkflow(name) ==
    /\ node = name
    /\ SetState(WorkflowNode(name, CurrentState))
    /\ node' = "chat_node"
    /\ UNCHANGED <<toolServerCalls, llmCalls>>
    /\ UNCHANGED <<initial_state, serverVars, auxVars>>

\* chat_node: the LLM answers with a message that carries any list of tool calls
ChatNode(names) ==
    /\ node = "chat_node"
    /\ llmCalls < MaxLLM
    /\ llmCalls' = llmCalls + 1
    /\ LET response == AIMessage(<<"reply">>, ToolCallsOf(names, llmCalls + 1))
           state == [CurrentState EXCEPT !.messages = Append(@, response)]
       IN  /\ SetState(state)
           /\ node' = route_after_chat(state)
    /\ UNCHANGED toolServerCalls
    /\ UNCHANGED <<initial_state, serverVars, auxVars>>

\* the safe response the chat node returns in place of a filtered one
FallbackMessage ==
    AIMessage(<<"I apologize, but I'm having trouble processing that request due to content filtering. ",
                "Could you please rephrase your request? For example:",
                "- 'Show available countries'", "- 'Check rates for Zimbabwe'",
                "- 'Display my contact list'", "- 'Show transfer options'">>, <<>>)

\* chat_node: the provider rejects the request with a content-filter error
ChatNodeContentFilter ==
    /\ node = "chat_node"
    /\ llmCalls < MaxLLM
    /\ llmCalls' = llmCalls + 1
    /\ LET response == FallbackMessage
           state == [CurrentState EXCEPT !.messages = Append(@, response)]
       IN  /\ SetState(state)
           /\ node' = route_after_chat(state)
    /\ UNCHANGED toolServerCalls
    /\ UNCHANGED <<initial_state, serverVars, auxVars>>

\* chat_node with a handler that swallows every LLM error
ChatNodeRaises_swallowed ==
    /\ node = "chat_node"
    /\ llmCalls < MaxLLM
    /\ llmCalls' = llmCalls + 1
    /\ messages' = Append(messages, AIMessage(<<>>, <<>>))
    /\ node' = END
    /\ UNCHANGED <<current_workflow, workflow_step, toolServerCalls>>
    /\ UNCHANGED <<initial_state, serverVars, auxVars>>

\* chat_node: any other LLM error is raised again and ends the pass
ChatNodeRaises ==
    /\ node = "chat_node"
    /\ llmCalls < MaxLLM
    /\ llmCalls' = llmCalls + 1
    /\ node' = END
    /\ UNCHANGED <<messages, current_workflow, workflow_step, toolServerCalls>>
    /\ UNCHANGED <<initial_state, serverVars, auxVars>>

\* the token of the run config and of the request context in one pass
ConfigTokens == {NULL, "cfg-1", "Bearer cfg-1"}
ContextTokens == {NULL, "ctx-1"}

extract_token_from_config(config_token) ==
    IF config_token = "Bearer cfg-1" THEN "cfg-1" ELSE config_token

\* the config's token, else the token of the context variable
ExternalToken(config_token, context_token) ==
    LET external_token == extract_token_from_config(config_token)
    IN  IF Truthy(external_token) THEN external_token
        ELSE IF Truthy(context_token) THEN context_token
        ELSE NULL

\* the external token the backend holds in a pass: the requests of one
\* session carry the same user's token, so every pass of the session finds
\* the token its first tool call found
PassTokens ==
    IF toolServerCalls = <<>>
    THEN {ExternalToken(config_token, context_token) :
             config_token \in ConfigTokens, context_token \in ContextTokens}
    ELSE {toolServerCalls[1].available}

\* execute_mcp_tools without the try around session.call_tool: the first
\* call that raises ends the pass
ExecuteMcpTools_uncaught ==
    /\ node = "remittance_tools"
    /\ IF messages = <<>> \/ ~IsAIWithCalls(messages[Len(messages)])
       THEN /\ node' = "chat_node"
            /\ UNCHANGED <<messages, toolServerCalls>>
       ELSE LET tool_calls == messages[Len(messages)].tool_calls
            IN  \E outcome \in [DOMAIN tool_calls -> {"ok", "raise"}] :
                \E external_token \in PassTokens :
                  LET raising == {i \in DOMAIN tool_calls : outcome[i] = "raise"}
                      sent == IF raising = {} THEN Len(tool_calls)
                              ELSE CHOOSE i \in raising : \A j \in raising : i <= j
                  IN  /\ node' = IF raising = {} THEN "chat_node" ELSE END
                      /\ messages' = IF raising # {} THEN messages
                                     ELSE messages \o
                                            [i \in DOMAIN tool_calls |->
                                               ToolMessage(tool_calls[i].id, tool_calls[i].name,
                                                           <<"result">>)]
                      /\ toolServerCalls' = toolServerCalls \o
                            [i \in 1..sent |->
                               ServerCall("remittance_tools", tool_calls[i], <<>>,
                                          external_token, external_token,
                                          outcome[i] = "raise")]
    /\ UNCHANGED <<current_workflow, workflow_step, llmCalls>>
    /\ UNCHANGED <<initial_state, serverVars, auxVars>>

\* execute_mcp_tools: every tool call of the last message goes to the tool server,
\* in list order; a call that raises becomes an "Error: ..." tool message
ExecuteMcpTools ==
    /\ node = "remittance_tools"
    /\ node' = "chat_node"
    /\ IF messages = <<>> \/ ~IsAIWithCalls(messages[Len(messages)])
       THEN UNCHANGED <<messages, toolServerCalls>>
       ELSE LET tool_calls == messages[Len(messages)].tool_calls
            IN  \E outcome \in [DOMAIN tool_calls -> {"ok", "raise"}] :
                \E external_token \in PassTokens :
                  LET returned == [i \in DOMAIN tool_calls |->
                                    ToolMessage(tool_calls[i].id, tool_calls[i].name,
                                                IF outcome[i] = "ok" THEN <<"result">>
                                                ELSE <<"Error: ", "tool failed">>)]
                  IN  /\ messages' = messages \o returned
                      /\ toolServerCalls' = toolServerCalls \o
                            [i \in DOMAIN tool_calls |->
                               ServerCall("remittance_tools", tool_calls[i], <<>>,
                                          external_token, external_token,
                                          outcome[i] = "raise")]
    /\ UNCHANGED <<current_workflow, workflow_step, llmCalls>>
    /\ UNCHANGED <<initial_state, serverVars, auxVars>>

\* execute_mcp_tools: the connection to the tool server fails; sse_client and
\* session.initialize() are outside the try, so the exception ends the pass
ExecuteMcpToolsUnreachable ==
    /\ node = "remittance_tools"
    /\ messages # <<>> /\ IsAIWithCalls(messages[Len(messages)])
    /\ node' = END
    /\ UNCHANGED <<messages, current_workflow, workflow_step, toolServerCalls, llmCalls>>
    /\ UNCHANGED <<initial_state, serverVars, auxVars>>

\* the graph compiled without the interrupt: the conditional edge is taken at once
TicketConfirmation_uninterrupted ==
    /\ node = "ticket_confirmation"
    /\ node' = route_after_confirmation(CurrentState)
    /\ UNCHANGED <<messages, current_workflow, workflow_step, toolServerCalls, llmCalls>>
    /\ UNCHANGED <<initial_state, serverVars, auxVars>>

\* ticket_confirmation_node returns the state; the graph is compiled with
\* interrupt_after=["ticket_confirmation"], so the pass is suspended here
TicketConfirmation ==
    /\ node = "ticket_confirmation"
    /\ node' = "interrupted"
    /\ UNCHANGED <<messages, current_workflow, workflow_step, toolServerCalls, llmCalls>>
    /\ UNCHANGED <<initial_state, serverVars, auxVars>>

ResumeContents == {<<"CONFIRM">>, <<"CONFIRM", ": go ahead">>, <<"CANCEL">>, <<"later">>}

\* the user's answer arrives as a tool message and the pass resumes at the
\* conditional edge after ticket_confirmation
Resume(content) ==
    /\ node = "interrupted"
    /\ LET held == messages[LastAIWithCalls(messages)].tool_calls[1]
           state == [CurrentState EXCEPT
                       !.messages = Append(@, ToolMessage(held.id, held.name, content))]
       IN  /\ SetState(state)
           /\ node' = route_after_confirmation(state)
    /\ UNCHANGED <<toolServerCalls, llmCalls>>
    /\ UNCHANGED <<initial_state, serverVars, auxVars>>

TicketResults == {<<"Support ticket ", "TICKET-12345", " created successfully.">>,
                  <<"Support ticket created.">>,
                  <<>>}

HasTicketId(content) == \E i \in DOMAIN content : content[i] = "TICKET-12345"

\* the messages that carry a create_ticket call
WithTicketCall(msgs) ==
    {i \in DOMAIN msgs :
        /\ IsAIWithCalls(msgs[i])
        /\ \E k \in DOMAIN msgs[i].tool_calls : msgs[i].tool_calls[k].name = "create_ticket"}

OriginalTicketCall_last(msgs) ==
    LET m == msgs[LastAIWithCalls(msgs)]
    IN  m.tool_calls[Len(m.tool_calls)]

\* the first create_ticket call of the latest AI message that has one
OriginalTicketCall(msgs) ==
    LET withTicket == WithTicketCall(msgs)
        i == CHOOSE x \in withTicket : \A y \in withTicket : y <= x
        ks == {k \in DOMAIN msgs[i].tool_calls : msgs[i].tool_calls[k].name = "create_ticket"}
    IN  msgs[i].tool_calls[CHOOSE k \in ks : \A j \in ks : k <= j]

PerformTicket ==
    /\ node = "perform_ticket"
    /\ node' = "chat_node"
    /\ LET ti == LastTool(messages)
           ai == LastAIWithCalls(messages)
       IN  IF ti = 0 \/ ai = 0
           THEN UNCHANGED <<messages, toolServerCalls>>
           ELSE IF messages[ti].content = <<"CANCEL">>
           THEN /\ messages' = Append(messages, AIMessage(<<"Ticket creation cancelled.">>, <<>>))
                /\ UNCHANGED toolServerCalls
           ELSE IF StartsWith(messages[ti].content, "CONFIRM")
           THEN LET original_tool_call == OriginalTicketCall(messages)
                    error_msg == AIMessage(<<"I encountered an error while creating your ticket.">>, <<>>)
                IN  IF WithTicketCall(messages) = {}
                    THEN /\ messages' = Append(messages, error_msg)
                         /\ UNCHANGED toolServerCalls
                    ELSE \/ /\ messages' = Append(messages, error_msg)   \* no connection
                            /\ UNCHANGED toolServerCalls
                         \/ \E available \in PassTokens, failed \in BOOLEAN :
                            /\ toolServerCalls' = Append(toolServerCalls,
                                   ServerCall("perform_ticket", original_tool_call,
                                              messages[ti].content, available, NULL, failed))
                            /\ IF failed
                               THEN messages' = Append(messages, error_msg)   \* call_tool raises
                               ELSE \E text \in TicketResults :
                                    LET ticket_result == IF text = <<>> THEN <<"Ticket created.">> ELSE text
                                        tool_msg == ToolMessage(original_tool_call.id, "create_ticket", ticket_result)
                                        ticket_id == IF HasTicketId(ticket_result) THEN "TICKET-12345" ELSE "N/A"
                                        success_msg == AIMessage(<<"Your support request has been successfully submitted! Ticket ID: ", ticket_id>>, <<>>)
                                    IN  messages' = messages \o <<tool_msg, success_msg>>
           ELSE UNCHANGED <<messages, toolServerCalls>>
    /\ UNCHANGED <<current_workflow, workflow_step, llmCalls>>
    /\ UNCHANGED <<initial_state, serverVars, auxVars>>

Next ==
    \/ SessionOpen
    \/ \E text \in SessionTexts : UserTurn(text)
    \/ DetectIntent
    \/ \E name \in WorkflowNames : GuidedWorkflow(name)
    \/ \E names \in NameLists : ChatNode(names)
    \/ ChatNodeContentFilter
    \/ ChatNodeRaises
    \/ ExecuteMcpTools
    \/ ExecuteMcpToolsUnreachable
    \/ TicketConfirmation
    \/ \E content \in ResumeContents : Resume(content)
    \/ PerformTicket

Spec == Init /\ [][Next]_vars

-----------------------------------------------------------------------------
(* test_subgraphs.py: each subgraph is built and invoked on a state of its  *)
(* own; node records the subgraph that has run.                            *)

WorkflowSteps == {NULL, "summarized", "completed", "escalating"}

InitSubgraph ==
    /\ \E text \in UserTexts :
       \E cw \in WorkflowNames \cup {NULL} :
       \E ws \in WorkflowSteps :
          /\ initial_state = State(<<HumanMessage(text)>>, cw, ws)
          /\ messages = initial_state.messages
          /\ current_workflow = cw
          /\ workflow_step = ws
    /\ node = "test_subgraph"
    /\ toolServerCalls = <<>>
    /\ llmCalls = 0
    /\ InitServer
    /\ InitAux

test_subgraph(subgraph_name) ==
    /\ node = "test_subgraph"
    /\ SetState(WorkflowNode(subgraph_name, initial_state))
    /\ node' = subgraph_name
    /\ UNCHANGED <<toolServerCalls, llmCalls, initial_state, serverVars, auxVars>>

NextSubgraph == \E subgraph_name \in WorkflowNames : test_subgraph(subgraph_name)

SpecSubgraph == InitSubgraph /\ [][NextSubgraph]_vars

-----------------------------------------------------------------------------
(* One pass of the graph: the nodes that run after an inbound message, on  *)
(* a checkpointed state, until the pass ends or is suspended.  The runtime *)
(* runs a scheduled node, so the steps of the pass are weakly fair; the    *)
(* user's answer to a suspended pass is not.                               *)

\* current_workflow and workflow_step as a finished pass leaves them
CheckpointedWorkflows ==
    {<<NULL, NULL>>, <<NULL, "completed">>} \cup {<<w, "completed">> : w \in WorkflowNames}

\* the session has two LLM runs left before the chat node gives its last answer
InitPass ==
    /\ \E text \in SessionTexts, cw \in {<<NULL, NULL>>, <<NULL, "completed">>} :
          /\ messages = <<HumanMessage(text)>>
          /\ current_workflow = cw[1]
          /\ workflow_step = cw[2]
    /\ node = "detect_intent"
    /\ toolServerCalls = <<>>
    /\ llmCalls = MaxLLM - 2
    /\ initial_state = State(<<>>, NULL, NULL)
    /\ InitServer
    /\ tm_enabled /\ extra_arguments = "ignored"
    /\ InitAux

\* chat_node once the LLM has been asked MaxLLM times in the pass: the LLM
\* answers with a message that carries no tool call
ChatNodeLast ==
    /\ node = "chat_node"
    /\ llmCalls = MaxLLM
    /\ LET response == AIMessage(<<"reply">>, <<>>)
           state == [CurrentState EXCEPT !.messages = Append(@, response)]
       IN  /\ SetState(state)
           /\ node' = route_after_chat(state)
    /\ UNCHANGED <<toolServerCalls, llmCalls>>
    /\ UNCHANGED <<initial_state, serverVars, auxVars>>

\* a node of the graph runs
RunNode ==
    \/ DetectIntent
    \/ \E name \in WorkflowNames : GuidedWorkflow(name)
    \/ \E names \in NameLists : ChatNode(names)
    \/ ChatNodeContentFilter
    \/ ChatNodeRaises
    \/ ChatNodeLast
    \/ ExecuteMcpTools
    \/ ExecuteMcpToolsUnreachable
    \/ TicketConfirmation
    \/ PerformTicket

NextPass ==
    \/ RunNode
    \/ \E content \in ResumeContents : Resume(content)

SpecPass == InitPass /\ [][NextPass]_vars /\ WF_vars(RunNode)

-----------------------------------------------------------------------------
(* execute_mcp_tools followed call by call: the loop over the tool calls   *)
(* of the last message, with a step where a call is sent and a step where  *)
(* its await returns or raises.                                            *)

InitTools ==
    /\ \E names \in NameLists \ {<<>>} :
          messages = <<HumanMessage(<<>>), AIMessage(<<"reply">>, ToolCallsOf(names, 1))>>
    /\ current_workflow = NULL
    /\ workflow_step = NULL
    /\ node = "remittance_tools"
    /\ toolServerCalls = <<>>
    /\ llmCalls = 1
    /\ initial_state = State(<<>>, NULL, NULL)
    /\ InitServer
    /\ InitAux

\* last_msg.tool_calls
LoopCalls == messages[2].tool_calls

\* a loop that sends a call without awaiting the one before it
CallTool_parallel(external_token) ==
    /\ node = "remittance_tools"
    /\ Len(toolServerCalls) < Len(LoopCalls)
    /\ external_token \in PassTokens
    /\ LET i == Len(toolServerCalls) + 1
       IN  /\ toolServerCalls' = Append(toolServerCalls,
                  ServerCall("remittance_tools", LoopCalls[i], <<>>,
                             external_token, external_token, FALSE))
           /\ inflight' = inflight \cup {i}
    /\ UNCHANGED <<messages, current_workflow, workflow_step, node, llmCalls, results>>
    /\ UNCHANGED <<initial_state, serverVars, flowVars>>

\* the loop reaches session.call_tool for the next tool call
CallTool(external_token) ==
    /\ node = "remittance_tools"
    /\ inflight = {}
    /\ Len(toolServerCalls) < Len(LoopCalls)
    /\ external_token \in PassTokens
    /\ LET i == Len(toolServerCalls) + 1
       IN  /\ toolServerCalls' = Append(toolServerCalls,
                  ServerCall("remittance_tools", LoopCalls[i], <<>>,
                             external_token, external_token, FALSE))
           /\ inflight' = inflight \cup {i}
    /\ UNCHANGED <<messages, current_workflow, workflow_step, node, llmCalls, results>>
    /\ UNCHANGED <<initial_state, serverVars, flowVars>>

\* the await of call i returns or raises, and its tool message is appended
ToolAnswers(i, outcome) ==
    /\ node = "remittance_tools"
    /\ i \in inflight
    /\ inflight' = inflight \ {i}
    /\ results' = Append(results,
                         ToolMessage(LoopCalls[i].id, LoopCalls[i].name,
                                     IF outcome = "ok" THEN <<"result">>
                                     ELSE <<"Error: ", "tool failed">>))
    /\ toolServerCalls' = [toolServerCalls EXCEPT ![i].failed = (outcome = "raise")]
    /\ UNCHANGED <<messages, current_workflow, workflow_step, node, llmCalls>>
    /\ UNCHANGED <<initial_state, serverVars, flowVars>>

\* return {"messages": results}, then the edge to chat_node
ReturnResults ==
    /\ node = "remittance_tools"
    /\ inflight = {}
    /\ Len(toolServerCalls) = Len(LoopCalls)
    /\ messages' = messages \o results
    /\ results' = <<>>
    /\ node' = "chat_node"
    /\ UNCHANGED <<current_workflow, workflow_step, toolServerCalls, llmCalls, inflight>>
    /\ UNCHANGED <<initial_state, serverVars, flowVars>>

NextTools ==
    \/ \E external_token \in PassTokens : CallTool(external_token)
    \/ \E i \in 1..MaxToolCalls, outcome \in {"ok", "raise"} : ToolAnswers(i, outcome)
    \/ ReturnResults

SpecTools == InitTools /\ [][NextTools]_vars

-----------------------------------------------------------------------------
(* Intent detection on its own: detect_intent and the edge after it, on a   *)
(* checkpointed state whose latest user message is any of the user texts.  *)

InitIntent ==
    /\ \E text \in UserTexts :
       \E earlier \in {<<>>} \cup {<<HumanMessage(t), AIMessage(<<"reply">>, <<>>)>> : t \in UserTexts} :
       \E cw \in CheckpointedWorkflows :
          /\ messages = Append(earlier, HumanMessage(text))
          /\ current_workflow = cw[1]
          /\ workflow_step = cw[2]
    /\ node = "detect_intent"
    /\ toolServerCalls = <<>>
    /\ llmCalls = 0
    /\ initial_state = State(<<>>, NULL, NULL)
    /\ InitServer
    /\ InitAux

NextIntent == DetectIntent

SpecIntent == InitIntent /\ [][NextIntent]_vars

-----------------------------------------------------------------------------
(* Properties of the conversation graph *)

\* C3: a create_ticket call reaches the tool server only from
\* perform_ticket_node, after a resume message whose content starts with
\* "CONFIRM"; execute_mcp_tools never dispatches one.
C3_TicketOnlyAfterConfirm ==
    \A i \in DOMAIN toolServerCalls :
        toolServerCalls[i].name = "create_ticket" =>
            /\ toolServerCalls[i].by = "perform_ticket"
            /\ StartsWith(toolServerCalls[i].after, "CONFIRM")

\* C4: whatever state a guided workflow's node is given, the state it returns
\* has current_workflow = null and workflow_step = "completed".
C4_WorkflowNodeCompletes ==
    node \in WorkflowNames => current_workflow = NULL /\ workflow_step = "completed"

\* a workflow node has run on a state that named another, unfinished workflow
C4_Witness ==
    /\ node = "refund"
    /\ initial_state.current_workflow = "loan_enquiry"
    /\ initial_state.workflow_step = "escalating"
    /\ current_workflow = NULL
    /\ workflow_step = "completed"

\* C5: at the end of every node, current_workflow is null whenever
\* workflow_step is "completed".
C5_ClearedWhileCompleted ==
    workflow_step = "completed" => current_workflow = NULL

\* the workflow the latest user message asks for (null if none)
LatestIntent ==
    IF SelectSeq(messages, IsHuman) = <<>> THEN NULL
    ELSE detect_workflow_intent(messages[LastHuman(messages)].content)

\* C6: once a workflow has completed, a later user turn whose message matches
\* a workflow's keywords makes detect_intent set current_workflow to that
\* workflow and sends the pass to that workflow's node, not to chat_node.
C6_IntentReenabled ==
    [][(/\ node = "detect_intent"
        /\ workflow_step = "completed"
        /\ current_workflow = NULL
        /\ LatestIntent # NULL)
       => (current_workflow' = LatestIntent /\ node' = LatestIntent)]_vars

-----------------------------------------------------------------------------
(* Properties of the transaction pipeline *)

\* the call ended in a validation error, raised or reported
IsValidationFailure(call) ==
    \/ call.raised.kind = "ValidationError"
    \/ call.result.returned /\ call.result.success = "false"
       /\ call.clientError.kind = "ValidationError"

\* the sub-account of the recipient that the rate-lock of calculation_id selects
MatchesRateLock(beneficiary_id, calculation_id) ==
    \E c \in issuedCalcs, a \in Recipient.accounts :
        /\ c.calculationId = calculation_id
        /\ a.id = beneficiary_id
        /\ c.productId \in a.linkedProducts

TransactionRequests(call) ==
    {i \in DOMAIN call.requests : call.requests[i].endpoint = TransactionEndpoint}

\* C1: with a token at hand, quote generation sends the gateway only the id
\* of a sub-account whose linkedProducts holds the rate-lock's productId; with
\* any other beneficiary_id it fails with a validation error and sends nothing
\* to the transaction-creation endpoint.
C1_AccountSelection ==
    (lastCall.tool = "generate_remittance_quote" /\ Truthy(get_token(NULL))) =>
        IF MatchesRateLock(lastCall.args.beneficiary_id, lastCall.args.calculation_id)
        THEN \A i \in TransactionRequests(lastCall) :
                lastCall.requests[i].body.beneficiaryId = lastCall.args.beneficiary_id
        ELSE IsValidationFailure(lastCall) /\ TransactionRequests(lastCall) = {}

\* C7: with a token at hand, quote generation with an empty or missing
\* calculationId fails with a validation error and sends nothing to the
\* transaction-creation endpoint.
C7_NoCalculationId ==
    (lastCall.tool = "generate_remittance_quote"
        /\ Truthy(get_token(NULL))
        /\ ~Truthy(lastCall.args.calculation_id))
    => (IsValidationFailure(lastCall) /\ TransactionRequests(lastCall) = {})

\* C9: with a token at hand, the execution stage sends one PATCH to the
\* transaction endpoint whose body is exactly {transactionId,
\* paymentMethodCode}, with the values the tool was given.
C9_TwoFieldPatch ==
    (lastCall.tool = "execute_remittance_transaction" /\ Truthy(get_token(NULL)))
    => /\ Len(lastCall.requests) = 1
       /\ lastCall.requests[1].method = "PATCH"
       /\ lastCall.requests[1].endpoint = TransactionEndpoint
       /\ lastCall.requests[1].body =
            [transactionId |-> lastCall.args.transaction_id,
             paymentMethodCode |-> lastCall.args.payment_method_code]

GatewayErrorKinds ==
    {"SasaiAPIError", "AuthenticationError", "TokenExpiredError", "APITimeoutError",
     "NetworkError", "ValidationError", "RateLimitError", "ServerError"}

PipelineTools ==
    {"calculate_rate_and_lock", "generate_remittance_quote", "get_payment_options",
     "execute_remittance_transaction"}

\* a pipeline stage sent a request and the client raised a gateway error for it
GatewayCallFailed ==
    /\ lastCall.tool \in PipelineTools
    /\ lastCall.requests # <<>>
    /\ lastCall.clientError.kind \in GatewayErrorKinds

StagePrefix(tool) ==
    CASE tool = "calculate_rate_and_lock" -> "Failed to calculate rate: "
      [] tool = "generate_remittance_quote" -> "Failed to generate quote: "
      [] tool = "get_payment_options" -> "Failed to get payment options: "
      [] tool = "execute_remittance_transaction" -> "Failed to execute transaction: "

-----------------------------------------------------------------------------
(* The client's contract, checked on SpecClient *)

\* the last request got as far as the gateway and was answered
Answered == clientOp.requests # <<>> /\ clientOp.http.kind = "response"

ClientRaised == clientOp.outcome.raised

ClientReturned == clientOp.method # NULL /\ ClientRaised = NoError

\* C20: when require_auth is true and the token is null or empty, the request
\* fails with AuthenticationError and nothing is sent to the gateway
C20_NoTokenNoRequest ==
    (clientOp.method # NULL /\ clientOp.require_auth /\ ~Truthy(clientOp.token))
        => /\ ClientRaised.kind = "AuthenticationError"
           /\ clientOp.requests = <<>>

C20_Witness ==
    /\ clientOp.method = "post"
    /\ clientOp.require_auth
    /\ clientOp.token = ""
    /\ ClientRaised.kind = "AuthenticationError"
    /\ clientOp.requests = <<>>

\* C17: an answered request returns an envelope exactly when the status is in
\* [200,300); a returned envelope has success=true and its data is null for a
\* body with no content, {message: raw text} for a body that is not JSON and
\* the parsed JSON otherwise; nothing is returned with success=false
C17_EnvelopeIffSuccessStatus ==
    /\ Answered =>
         LET http == clientOp.http
             envelope == clientOp.outcome.envelope
         IN  /\ ClientReturned <=> (200 <= http.status /\ http.status < 300)
             /\ ClientReturned =>
                  /\ envelope.success
                  /\ envelope.status_code = http.status
                  /\ http.body \in {"empty", "blank"} =>
                        envelope.data = "none" /\ envelope.message = NULL
                  /\ http.body = "text" =>
                        envelope.data = "message" /\ envelope.message = ResponseText(http)
                  /\ http.body = "json" =>
                        envelope.data = "json" /\ envelope.json = http.data
    /\ ClientReturned => clientOp.outcome.envelope.success

C17_Witness ==
    /\ Answered
    /\ ClientReturned
    /\ clientOp.http.status = 204
    /\ clientOp.http.body = "text"
    /\ clientOp.outcome.envelope.message = "OK"

-----------------------------------------------------------------------------
(* The Token Manager's contract, checked on SpecManager *)

\* C14: for every non-empty X, in every state of the manager, get_token(X)
\* returns X and has_token(X) returns true
C14_ExternalTokenWins ==
    /\ (tmOp.op = "get_token" /\ Truthy(tmOp.argument))
          => tmOp.returned_token = tmOp.argument
    /\ (tmOp.op = "has_token" /\ Truthy(tmOp.argument)) => tmOp.returned_bool
    /\ \A X \in ExternalTokens : Truthy(X) => get_token(X) = X /\ has_token(X)

C14_Witness ==
    /\ tmOp.op = "get_token"
    /\ tmOp.argument = "ext-1"
    /\ tmOp.returned_token = "ext-1"
    /\ tm_enabled
    /\ tm_token = "tok-1"

\* C15: after clear_token and until the next set_token, has_token() is false
\* and get_token() is null; clear_token returns true exactly when a managed
\* token was held before the call
C15_ClearedUntilSet ==
    /\ tmOp.cleared =>
          /\ ~has_token(NULL)
          /\ get_token(NULL) = NULL
          /\ (tmOp.op = "get_token" /\ ~Truthy(tmOp.argument)) => tmOp.returned_token = NULL
          /\ (tmOp.op = "has_token" /\ ~Truthy(tmOp.argument)) => ~tmOp.returned_bool
    /\ tmOp.op = "clear_token" => (tmOp.returned_bool <=> tmOp.before.token # NULL)

C15_Witness ==
    /\ tmOp.op = "has_token"
    /\ tmOp.argument = NULL
    /\ tmOp.cleared
    /\ ~tmOp.returned_bool
    /\ tm_enabled

\* C16: while the manager is disabled, set_token and clear_token leave the
\* token and the metadata as they were, clear_token returns false, and
\* get_token() / has_token() with no external token return null / false
C16_DisabledIsInert ==
    [][~tm_enabled =>
          /\ tm_token' = tm_token
          /\ tm_metadata' = tm_metadata
          /\ tmOp'.op = "clear_token" => ~tmOp'.returned_bool
          /\ (tmOp'.op = "get_token" /\ ~Truthy(tmOp'.argument))
                => tmOp'.returned_token = NULL
          /\ (tmOp'.op = "has_token" /\ ~Truthy(tmOp'.argument))
                => ~tmOp'.returned_bool]_vars

C16_Witness ==
    /\ ~tm_enabled
    /\ tmOp.op = "set_token"
    /\ tmOp.argument = "tok-1"
    /\ tm_token = NULL
    /\ tm_metadata = EmptyDict
    /\ ~has_token(NULL)

-----------------------------------------------------------------------------
(* Which token the tools use, checked on SpecServer *)

\* the bearer credentials of the requests a call sent
Bearers(call) == {call.requests[i].bearer : i \in DOMAIN call.requests}

\* C11: every gateway request made while serving a tool call that was given a
\* non-empty external token carries that token as its bearer credential,
\* whatever the Token Manager holds, for wallet tools and pipeline tools alike
C11_ExternalTokenCarried ==
    Truthy(lastCall.external_token) => Bearers(lastCall) \subseteq {lastCall.external_token}

\* the tools that serve a call by a request to the gateway
GatewayTools ==
    PipelineTools \cup {"get_wallet_balance", "get_exchange_rate", "get_recipient_list"}

\* C12: with the Token Manager disabled and no external token given, a call
\* of a gateway tool sends no authenticated request and fails
C12_DisabledNeedsExternalToken ==
    (lastCall.tool \in GatewayTools /\ ~tm_enabled /\ ~Truthy(lastCall.external_token))
        => /\ Bearers(lastCall) = {}
           /\ lastCall.raised # NoError \/ lastCall.result.error # <<>>

\* C13: once a request made with the managed token has been answered with
\* 401, no later request carries that token unless it was cleared or replaced
\* first: the call that follows the 401 does not send the same managed token
C13_NoStaleTokenAfter401 ==
    [][(/\ lastCall.clientError.kind = "TokenExpiredError"
        /\ Truthy(tm_token)
        /\ tm_token \in Bearers(lastCall))
            => tm_token \notin Bearers(lastCall')]_vars

-----------------------------------------------------------------------------
(* Retries, checked on SpecServer *)

\* C21: a tool call sends at most one HTTP request whatever the outcome, and
\* a 401 answer makes the client raise TokenExpired, which the tool hands to
\* its caller without sending the request again
C21_NoResend ==
    /\ Len(lastCall.requests) <= 1
    /\ (lastCall.requests # <<>> /\ lastCall.answer.status = 401) =>
          /\ lastCall.clientError.kind = "TokenExpiredError"
          /\ lastCall.raised.kind = "TokenExpiredError" \/ lastCall.result.error # <<>>

C21_Witness ==
    /\ lastCall.tool = "calculate_rate_and_lock"
    /\ Len(lastCall.requests) = 1
    /\ lastCall.answer.status = 401
    /\ lastCall.clientError.kind = "TokenExpiredError"
    /\ lastCall.result.success = "false"

-----------------------------------------------------------------------------
(* Routing of the conversation graph, checked on Spec *)

\* the names of the tool calls a message carries
CallNames(m) == {m.tool_calls[i].name : i \in DOMAIN m.tool_calls}

\* C22: after a chat-node turn the next node follows from the produced
\* message: ticket_confirmation if it carries a tool call named create_ticket,
\* the tool-execution node if it carries any other tool call, the end of the
\* turn if it carries none
C22_RouteAfterChat ==
    [][(node = "chat_node" /\ Len(messages') = Len(messages) + 1) =>
          LET produced == messages'[Len(messages')]
          IN  node' = IF "create_ticket" \in CallNames(produced) THEN "ticket_confirmation"
                      ELSE IF CallNames(produced) # {} THEN "remittance_tools"
                      ELSE END]_vars

CancelledMessage == AIMessage(<<"Ticket creation cancelled.">>, <<>>)
TicketErrorMessage ==
    AIMessage(<<"I encountered an error while creating your ticket.">>, <<>>)

\* the tool-server calls made by a step
NewServerCalls == SubSeq(toolServerCalls', Len(toolServerCalls) + 1, Len(toolServerCalls'))

\* C23: on resume after the interrupt, a message starting with CONFIRM goes
\* to perform_ticket, which attempts the ticket creation; the message CANCEL
\* makes perform_ticket append a cancellation message and call no tool; any
\* other message ends the turn with perform_ticket not run and no tool called
C23_ResumeRouting ==
    [][/\ node = "interrupted" =>
            LET content == messages'[Len(messages')].content
            IN  /\ StartsWith(content, "CONFIRM") => node' = "perform_ticket"
                /\ content = <<"CANCEL">> => node' = "perform_ticket"
                /\ (~StartsWith(content, "CONFIRM") /\ content # <<"CANCEL">>) => node' = END
                /\ NewServerCalls = <<>>
       /\ node = "perform_ticket" =>
            LET content == messages[LastTool(messages)].content
            IN  /\ content = <<"CANCEL">> =>
                      /\ messages' = Append(messages, CancelledMessage)
                      /\ NewServerCalls = <<>>
                /\ StartsWith(content, "CONFIRM") =>
                      \/ /\ Len(NewServerCalls) = 1
                         /\ NewServerCalls[1].name = "create_ticket"
                      \/ /\ NewServerCalls = <<>>
                         /\ messages' = Append(messages, TicketErrorMessage)]_vars

C23_Witness ==
    /\ node = "chat_node"
    /\ messages # <<>>
    /\ messages[Len(messages)] = CancelledMessage
    /\ Len(messages) >= 2
    /\ messages[Len(messages) - 1].type = "tool"
    /\ messages[Len(messages) - 1].content = <<"CANCEL">>

\* C26: on the first pass of a session with no user message, the graph
\* appends the welcome message and ends the pass, running neither intent
\* detection nor the chat node
C26_WelcomeEndsPass ==
    [][(node = "detect_intent" /\ SelectSeq(messages, IsHuman) = <<>>) =>
          /\ messages' = Append(messages, AIMessage(WelcomeText, <<>>))
          /\ current_workflow' = current_workflow
          /\ node' = END]_vars

\* perform_ticket runs on a resume message that starts with CONFIRM
Confirmed ==
    /\ node = "perform_ticket"
    /\ LastTool(messages) # 0
    /\ StartsWith(messages[LastTool(messages)].content, "CONFIRM")

\* the call the chat node emitted and the interrupt held back
HeldCall == messages[LastAIWithCalls(messages)].tool_calls[1]

SuccessMessage(ticket_id) ==
    AIMessage(<<"Your support request has been successfully submitted! Ticket ID: ",
                ticket_id>>, <<>>)

IsAnswerTo(message, call) ==
    /\ IsTool(message)
    /\ message.tool_call_id = call.id

\* C25: the pass is suspended after ticket_confirmation and after no other
\* node; while it is suspended no node runs (no LLM call, no tool-server call,
\* no workflow change) and the only step is the arrival of the user's answer
\* for the held call; perform_ticket is entered only from that suspension
C25_SuspendedUntilAnswer ==
    [][/\ node = "ticket_confirmation" => node' = "interrupted"
       /\ (node' = "interrupted" /\ node # "interrupted") => node = "ticket_confirmation"
       /\ node = "interrupted" =>
             /\ Len(messages') = Len(messages) + 1
             /\ SubSeq(messages', 1, Len(messages)) = messages
             /\ IsAnswerTo(messages'[Len(messages')], HeldCall)
             /\ HeldCall.name = "create_ticket"
             /\ UNCHANGED <<toolServerCalls, llmCalls, current_workflow, workflow_step>>
       /\ node' = "perform_ticket" => node = "interrupted"]_vars

C25_Witness ==
    /\ node = "perform_ticket"
    /\ LastAIWithCalls(messages) # 0
    /\ HeldCall.name = "create_ticket"
    /\ IsAnswerTo(messages[Len(messages)], HeldCall)

\* the scripted summary a workflow node appends
IsSummaryOf(message, name) ==
    /\ message.type = "ai"
    /\ message.tool_calls = <<>>
    /\ message = WorkflowNode(name, State(<<>>, NULL, NULL)).messages[1]
    /\ name = "refund" =>
          message.content = <<"You have 1 transaction(s) that may be eligible for refund.">>

\* C27: with no active workflow, a user message that intent detection maps to
\* a workflow W sets current_workflow = W and sends the pass to W's node; the
\* node appends its scripted summary once and hands over to the chat node
C27_WorkflowRunsOnce ==
    [][/\ (node = "detect_intent" /\ current_workflow = NULL /\ LatestIntent # NULL) =>
             /\ current_workflow' = LatestIntent
             /\ node' = LatestIntent
       /\ node \in WorkflowNames =>
             /\ node' = "chat_node"
             /\ Len(messages') = Len(messages) + 1
             /\ SubSeq(messages', 1, Len(messages)) = messages
             /\ IsSummaryOf(messages'[Len(messages')], node)]_vars

\* the fixed priority order of the workflows
PriorityOrder == <<"transaction_help", "financial_insights", "refund",
                   "loan_enquiry", "card_issue", "general_enquiry">>

KeywordsOf(workflow) ==
    CASE workflow = "transaction_help" -> KW_transaction_help
      [] workflow = "financial_insights" -> KW_financial_insights
      [] workflow = "refund" -> KW_refund
      [] workflow = "loan_enquiry" -> KW_loan_enquiry
      [] workflow = "card_issue" -> KW_card_issue
      [] workflow = "general_enquiry" -> KW_general_enquiry

\* positions in the order of the workflows one of whose keywords occurs in
\* the lower-cased text
Matching(text) ==
    {i \in DOMAIN PriorityOrder :
        \E f \in Fragments(text) : Lower(f) \in KeywordsOf(PriorityOrder[i])}

EarliestMatch(text) ==
    IF Matching(text) = {} THEN NULL
    ELSE PriorityOrder[CHOOSE i \in Matching(text) : \A j \in Matching(text) : i <= j]

\* C28: when detection is applied (a user message, no workflow recorded),
\* current_workflow becomes the earliest workflow in the fixed order one of
\* whose keywords occurs in the lower-cased latest user message; with no
\* match it stays null and the pass goes to the chat node
C28_EarliestWorkflowWins ==
    [][(node = "detect_intent"
        /\ SelectSeq(messages, IsHuman) # <<>> /\ current_workflow = NULL) =>
          LET text == messages[LastHuman(messages)].content
          IN  /\ detect_workflow_intent(text) = EarliestMatch(text)
              /\ current_workflow' = EarliestMatch(text)
              /\ EarliestMatch(text) = NULL => node' = "chat_node"]_vars

\* "my credit card is blocked" matches loan_enquiry and card_issue
C28_Witness ==
    /\ node = "loan_enquiry"
    /\ current_workflow = "loan_enquiry"
    /\ Matching(messages[LastHuman(messages)].content) = {4, 5}

\* C29: every tool call the graph sends carries the external token the
\* backend holds in that pass as its external_token argument, the
\* create_ticket call of perform_ticket included, and carries no such
\* argument when the backend holds none
C29_ExternalTokenInjected ==
    \A i \in DOMAIN toolServerCalls :
        toolServerCalls[i].external_token = toolServerCalls[i].available

LLMAnswered ==
    /\ Len(messages') = Len(messages) + 1
    /\ messages'[Len(messages')].type = "ai"
    /\ messages'[Len(messages')].content = <<"reply">>

\* a run of the chat node whose LLM call failed
LLMFailed == node = "chat_node" /\ llmCalls' = llmCalls + 1 /\ ~LLMAnswered

C32_OneAtATime ==
    /\ Cardinality(inflight) <= 1
    /\ \A i \in DOMAIN toolServerCalls : toolServerCalls[i].id = LoopCalls[i].id
    /\ node = "remittance_tools" =>
          /\ Len(toolServerCalls) = Len(results) + Cardinality(inflight)
          /\ \A i \in DOMAIN results :
                IsTool(results[i]) /\ results[i].tool_call_id = LoopCalls[i].id
    /\ node = "chat_node" =>
          /\ Len(messages) = 2 + Len(LoopCalls)
          /\ Len(toolServerCalls) = Len(LoopCalls)
          /\ \A i \in DOMAIN LoopCalls :
                /\ IsTool(messages[2 + i])
                /\ messages[2 + i].tool_call_id = LoopCalls[i].id
                /\ messages[2 + i].name = LoopCalls[i].name

\* two calls were handled, the first of which failed
C32_Witness ==
    /\ node = "chat_node"
    /\ Len(LoopCalls) = 2
    /\ Len(messages) = 4
    /\ toolServerCalls[1].failed
    /\ messages[3].tool_call_id = LoopCalls[1].id
    /\ messages[4].tool_call_id = LoopCalls[2].id

\* the stage did not succeed: it raised, or returned {success: false, error}
StageFailed(call) ==
    \/ call.raised # NoError
    \/ ~call.result.returned
    \/ call.result.success = "false"

\* C34: a rate-lock or quote-generation call that fails hands its caller no
\* calculationId and no transactionId; a result that carries one is the
\* result of a successful stage
C34_FailedStageHandsNoId ==
    (lastCall.tool \in {"calculate_rate_and_lock", "generate_remittance_quote"}
     /\ StageFailed(lastCall)) =>
        /\ lastCall.result.calculationId = NULL
        /\ lastCall.result.transactionId = NULL

\* a rate-lock the gateway refused with a body that names a calculationId
C34_Witness ==
    /\ lastCall.tool = "calculate_rate_and_lock"
    /\ lastCall.requests # <<>>
    /\ lastCall.answer.status = 500
    /\ lastCall.answer.data.calculationId = "calc-1"
    /\ StageFailed(lastCall)
    /\ lastCall.result.success = "false"
    /\ lastCall.result.calculationId = NULL

\* C35: when detect_intent runs with a workflow recorded in current_workflow
\* and a user message in the history, it leaves current_workflow,
\* workflow_step and the messages as they are, whatever the latest user
\* message asks for
C35_ActiveWorkflowSkipsDetection ==
    [][(node = "detect_intent" /\ current_workflow # NULL
        /\ SelectSeq(messages, IsHuman) # <<>>) =>
          UNCHANGED <<messages, current_workflow, workflow_step>>]_vars

\* detect_intent has run on a message that asks for another workflow than
\* the recorded one
C35_Witness ==
    /\ node = "chat_node"
    /\ current_workflow = "loan_enquiry"
    /\ LatestIntent = "refund"

\* the summaries guided workflow nodes have appended in the session
Activations ==
    {i \in DOMAIN messages : \E w \in WorkflowNames : IsSummaryOf(messages[i], w)}

PassAtRest == node \in {END, "interrupted"}

\* C37: every pass ends at END or at the suspension after
\* ticket_confirmation once the chat node answers without tool calls;
\* detect_intent is entered only when a pass starts, a guided workflow node
\* only from detect_intent, and the tool node, perform_ticket and the
\* workflow nodes all lead back to the chat node, so every cycle goes
\* through it
C37_PassEnds ==
    /\ (~PassAtRest) ~> PassAtRest
    /\ [][/\ node' = "detect_intent" => node \in {END, "detect_intent"}
          /\ (node' \in WorkflowNames /\ node' # node) => node = "detect_intent"
          /\ node \in WorkflowNames \cup {"perform_ticket"} => node' = "chat_node"
          /\ node = "remittance_tools" => node' \in {"chat_node", END}
          /\ node = "ticket_confirmation" => node' = "interrupted"]_vars

\* a pass that went round the chat node and the tool node before it ended
C37_Witness ==
    /\ node = END
    /\ llmCalls = MaxLLM
    /\ toolServerCalls # <<>>
    /\ messages[Len(messages)].type = "ai"
    /\ messages[Len(messages)].tool_calls = <<>>

-----------------------------------------------------------------------------
(* The login flow of the tool server (auth/tools.py), request by request *)

LoginEndpoint == <<BASE_URL, "/bff/v2/auth/token">>
PinVerifyEndpoint == <<BASE_URL, "/bff/v4/auth/pin/verify">>
RefreshTokenEndpoint == <<BASE_URL, "/bff/v3/user/refreshToken">>

AuthTimeout == AuthResponse("timeout", 0, "empty", NULL, NULL)
AuthNetworkError == AuthResponse("network", 0, "empty", NULL, NULL)

\* the answers to the login request: a guest token with or without a refresh
\* token, no guest token, a body that is not JSON, a refusal, no answer
LoginAnswers ==
    {AuthResponse("response", 200, "json", "guest-1", r) : r \in {NULL, "", "refresh-1"}}
    \cup {AuthResponse("response", 200, "json", NULL, "refresh-1"),
          AuthResponse("response", 200, "json", "", NULL),
          AuthResponse("response", 200, "text", NULL, NULL),
          AuthResponse("response", 401, "json", NULL, NULL),
          AuthTimeout, AuthNetworkError}

PinAnswers ==
    {AuthResponse("response", 200, "json", "tok-1", "refresh-2"),
     AuthResponse("response", 200, "json", NULL, NULL),
     AuthResponse("response", 200, "text", NULL, NULL),
     AuthResponse("response", 401, "json", "tok-1", NULL),
     AuthTimeout}

RefreshAnswers ==
    {AuthResponse("response", 200, "json", "tok-2", NULL),
     AuthResponse("response", 200, "json", NULL, NULL),
     AuthResponse("response", 200, "text", NULL, NULL),
     AuthResponse("response", 500, "json", "tok-2", NULL),
     AuthNetworkError}

\* what awaiting client.post comes to: the httpx exception, or nothing
PostRaises(answer) ==
    CASE answer.kind = "timeout" -> "timeout"
      [] answer.kind = "network" -> "network"
      [] OTHER -> NULL

\* the metadata stored with the token, by token_source
TokenMetadata(source) ==
    CASE source = "pin_verification" -> "{source: pin_verification}"
      [] source = "refresh_token" -> "{source: refresh_token, pin_verification_failed: True}"
      [] OTHER -> EmptyDict

\* lines 110-154: PIN verification did not answer 200
RefreshFlow(login, pin, refresh, sent) ==
    IF Truthy(login.refreshToken)
    THEN LET requests ==
                 Append(sent, HttpRequest("POST", RefreshTokenEndpoint, login.accessToken, NULL))
         IN  IF PostRaises(refresh) # NULL
             THEN AuthRun(login, pin, refresh, requests, PostRaises(refresh), NULL, NULL)
             ELSE IF refresh.status # 200
             THEN AuthRun(login, pin, refresh, requests, "refresh_failed", NULL, NULL)
             ELSE IF refresh.body # "json"
             THEN AuthRun(login, pin, refresh, requests, "unexpected", NULL, NULL)
             ELSE IF ~Truthy(refresh.accessToken)
             THEN AuthRun(login, pin, refresh, requests, "refresh_no_token", NULL, NULL)
             ELSE AuthRun(login, pin, refresh, requests, "refresh_token",
                          refresh.accessToken, "refresh_token")
    ELSE AuthRun(login, pin, refresh, sent, "no_refresh_token", NULL, NULL)

PinFlow_refresh_always(login, pin, refresh, sent) ==
    RefreshFlow(login, pin, refresh,
                Append(sent, HttpRequest("POST", PinVerifyEndpoint, login.accessToken, NULL)))

\* lines 64-108: PIN verification with the guest token
PinFlow(login, pin, refresh, sent) ==
    LET requests == Append(sent, HttpRequest("POST", PinVerifyEndpoint, login.accessToken, NULL))
    IN  IF PostRaises(pin) # NULL
        THEN AuthRun(login, pin, refresh, requests, PostRaises(pin), NULL, NULL)
        ELSE IF pin.status = 200
        THEN IF pin.body # "json"
             THEN AuthRun(login, pin, refresh, requests, "unexpected", NULL, NULL)
             ELSE IF ~Truthy(pin.accessToken)
             THEN AuthRun(login, pin, refresh, requests, "pin_no_token", NULL, NULL)
             ELSE AuthRun(login, pin, refresh, requests, "pin_verification",
                          pin.accessToken, "pin_verification")
        ELSE RefreshFlow(login, pin, refresh, requests)

\* generate_authentication_token, lines 28-165: the requests it sends for the
\* answers the gateway has, and how it ends
authentication_flow(login, pin, refresh) ==
    LET sent == <<HttpRequest("POST", LoginEndpoint, NULL, NULL)>>
    IN  IF PostRaises(login) # NULL
        THEN AuthRun(login, pin, refresh, sent, PostRaises(login), NULL, NULL)
        ELSE IF login.status # 200
        THEN AuthRun(login, pin, refresh, sent, "login_failed", NULL, NULL)
        ELSE IF login.body # "json"
        THEN AuthRun(login, pin, refresh, sent, "unexpected", NULL, NULL)
        ELSE IF ~Truthy(login.accessToken)
        THEN AuthRun(login, pin, refresh, sent, "no_guest_token", NULL, NULL)
        ELSE PinFlow(login, pin, refresh, sent)

\* tool generate_wallet_authentication_token, followed request by request
GenerateAuthenticationToken(login, pin, refresh) ==
    /\ calls < MaxCalls
    /\ LET run == authentication_flow(login, pin, refresh)
           error == generate_authentication_token(run.outcome)
       IN  /\ authRun' = run
           /\ tm_token' = IF error = NoError THEN set_token(run.token) ELSE tm_token
           /\ tm_metadata' = IF error = NoError
                             THEN set_token_metadata(TokenMetadata(run.source))
                             ELSE tm_metadata
           /\ lastCall' = Call("generate_wallet_authentication_token", NoArgs,
                               Stage(run.requests, NoError, error,
                                     IF error = NoError
                                     THEN [NoResult EXCEPT !.returned = TRUE,
                                                           !.success = "true"]
                                     ELSE NoResult))
    /\ calls' = calls + 1
    /\ UNCHANGED <<graphVars, results, inflight, otherVars, issuedCalcs>>
    /\ UNCHANGED <<sasai_token_context, httpRequests, sessions>>

NextAuth ==
    \/ \E login \in LoginAnswers, pin \in PinAnswers, refresh \in RefreshAnswers :
         GenerateAuthenticationToken(login, pin, refresh)
    \/ ClearWalletToken

SpecAuth == InitPipeline /\ [][NextAuth]_vars

\* C38: a run of generate_authentication_token sends login first, PIN
\* verification next and the refresh request only when PIN verification
\* answered other than 200 and login returned a refresh token; a run that
\* fails raises and leaves the manager's token and metadata as they were; a
\* run that succeeds with the manager enabled stores the token it returns
FlowOrder == <<LoginEndpoint, PinVerifyEndpoint, RefreshTokenEndpoint>>

GenerationRan ==
    calls' = calls + 1 /\ lastCall'.tool = "generate_wallet_authentication_token"

FlowFailed(run) ==
    \/ run.login.kind # "response" \/ run.login.status # 200
    \/ ~Truthy(run.login.accessToken)
    \/ Len(run.requests) >= 2 /\ run.pin.kind # "response"
    \/ Len(run.requests) >= 2 /\ run.pin.status = 200 /\ ~Truthy(run.pin.accessToken)
    \/ Len(run.requests) = 2 /\ run.pin.status # 200
    \/ Len(run.requests) = 3 /\ run.refresh.kind # "response"
    \/ Len(run.requests) = 3 /\ run.refresh.status # 200
    \/ Len(run.requests) = 3 /\ ~Truthy(run.refresh.accessToken)

C38_TokenChangesOnlyOnSuccess ==
    [][GenerationRan =>
         LET run == authRun'
             n == Len(run.requests)
         IN  /\ n \in 1..3
             /\ \A i \in 1..n : run.requests[i].endpoint = FlowOrder[i]
             /\ n = 3 <=> /\ n >= 2
                          /\ run.pin.kind = "response"
                          /\ run.pin.status # 200
                          /\ Truthy(run.login.refreshToken)
             /\ FlowFailed(run) =>
                    /\ lastCall'.raised # NoError
                    /\ ~lastCall'.result.returned
                    /\ tm_token' = tm_token
                    /\ tm_metadata' = tm_metadata
             /\ ~FlowFailed(run) =>
                    /\ lastCall'.raised = NoError
                    /\ Truthy(run.token)
                    /\ tm_enabled => tm_token' = run.token]_vars

\* a generation that went through the refresh request and replaced the token
\* an earlier generation had stored
C38_Witness ==
    /\ lastCall.tool = "generate_wallet_authentication_token"
    /\ lastCall.raised = NoError
    /\ Len(authRun.requests) = 3
    /\ authRun.source = "refresh_token"
    /\ tm_enabled
    /\ tm_token = "tok-2"
    /\ calls = MaxCalls

-----------------------------------------------------------------------------
(* The backend's requests (app/main.py, app/auth.py, app/context.py): the
   middleware that puts the request's token in the context variable, and the
   tool node that reads it.  Every request runs in a context of its own,
   which starts as the default (None) or as a copy of a context an earlier
   dispatch wrote to. *)

\* the JSON body of a request: the token of properties.headers and the token
\* of properties.metadata
RequestBody(kind, headers_token, metadata_token) ==
    [kind |-> kind, headers_token |-> headers_token, metadata_token |-> metadata_token]

HttpIn(method, path, header, body, config_token) ==
    [method |-> method, path |-> path, header |-> header, body |-> body,
     config_token |-> config_token]

NotJson == RequestBody("text", NULL, NULL)
NoProperties == RequestBody("json", NULL, NULL)
CopilotKitPath == "/api/copilotkit"

\* the requests a client sends: chat requests with a token in a header, in
\* the body's properties, in the run config, in several places or nowhere,
\* and requests to another route
HttpIns ==
    {HttpIn("POST", CopilotKitPath, NULL, NotJson, NULL),
     HttpIn("POST", CopilotKitPath, NULL, NoProperties, NULL),
     HttpIn("POST", CopilotKitPath, "hdr-1", NoProperties, NULL),
     HttpIn("POST", CopilotKitPath, NULL, RequestBody("json", "body-1", NULL), NULL),
     HttpIn("POST", CopilotKitPath, NULL, RequestBody("json", NULL, "meta-1"), NULL),
     HttpIn("POST", CopilotKitPath, "hdr-1", RequestBody("json", "body-1", "meta-1"), NULL),
     HttpIn("POST", CopilotKitPath, NULL, NoProperties, "Bearer cfg-1"),
     HttpIn("POST", CopilotKitPath, "hdr-1", NoProperties, "Bearer cfg-1"),
     HttpIn("GET", "/api/sessions", "hdr-1", NotJson, NULL),
     HttpIn("GET", "/api/sessions", NULL, NotJson, NULL)}

\* request.headers.get("X-Sasai-Token") or request.headers.get("x-sasai-token")
extract_sasai_token_from_request(request) == request.header

\* lines 120-155: the token of the body's properties; a body that does not
\* parse leaves the token as it was
BodyToken(request) ==
    IF request.body.kind # "json" THEN NULL
    ELSE IF Truthy(request.body.headers_token) THEN request.body.headers_token
    ELSE request.body.metadata_token

dispatch_set_when_found(request, context) ==
    LET header == extract_sasai_token_from_request(request)
        sasai_token ==
            IF ~Truthy(header) /\ request.method = "POST" /\ request.path = CopilotKitPath
            THEN BodyToken(request)
            ELSE header
    IN  IF Truthy(sasai_token) THEN sasai_token ELSE context

\* SasaiTokenMiddleware.dispatch: the value of the context variable after
\* lines 158-164
dispatch(request, context) ==
    LET header == extract_sasai_token_from_request(request)
        sasai_token ==
            IF ~Truthy(header) /\ request.method = "POST" /\ request.path = CopilotKitPath
            THEN BodyToken(request)
            ELSE header
    IN  IF Truthy(sasai_token) THEN sasai_token ELSE NULL

\* a request the backend is serving: what it carries, the value its context
\* started with, the value of the context variable now, how far it is, and
\* the external token its tool calls were given
Serving(request, inherited, context, pc, injected) ==
    [request |-> request, inherited |-> inherited, context |-> context, pc |-> pc,
     injected |-> injected]

Arrive(request, inherited) ==
    /\ Cardinality(httpRequests) < MaxInflight
    /\ httpRequests' =
           httpRequests \cup {Serving(request, inherited, inherited, "arrived", NULL)}
    /\ UNCHANGED <<graphVars, serverVars, results, inflight, authRun, sasai_token_context,
                   sessions>>

Dispatch(r) ==
    /\ r.pc = "arrived"
    /\ LET context == dispatch(r.request, r.context)
       IN  /\ httpRequests' =
                  (httpRequests \ {r})
                  \cup {Serving(r.request, r.inherited, context, "dispatched", NULL)}
           /\ sasai_token_context' = context
    /\ UNCHANGED <<graphVars, serverVars, results, inflight, authRun, sessions>>

\* execute_mcp_tools, lines 300-343, in the request's context
InjectToken(r) ==
    /\ r.pc = "dispatched"
    /\ r.request.method = "POST" /\ r.request.path = CopilotKitPath
    /\ httpRequests' =
           (httpRequests \ {r})
           \cup {Serving(r.request, r.inherited, r.context, "tools",
                         ExternalToken(r.request.config_token, r.context))}
    /\ UNCHANGED <<graphVars, serverVars, results, inflight, authRun, sasai_token_context,
                   sessions>>

Respond(r) ==
    /\ r.pc \in {"dispatched", "tools"}
    /\ httpRequests' = httpRequests \ {r}
    /\ UNCHANGED <<graphVars, serverVars, results, inflight, authRun, sasai_token_context,
                   sessions>>

NextRequests ==
    \/ \E request \in HttpIns, inherited \in {NULL, sasai_token_context} :
         Arrive(request, inherited)
    \/ \E r \in httpRequests : Dispatch(r)
    \/ \E r \in httpRequests : InjectToken(r)
    \/ \E r \in httpRequests : Respond(r)

SpecRequests == InitPipeline /\ [][NextRequests]_vars

\* the tokens a request carries
TokensCarried(request) ==
    {t \in {request.header, request.body.headers_token, request.body.metadata_token,
            extract_token_from_config(request.config_token)} : Truthy(t)}

AtTools == {r \in httpRequests : r.pc = "tools"}

\* C39: the external token given to a request's tool calls is one the request
\* carries, or none; a request that carries no token has none injected,
\* whatever its context started with; and two requests that carry the same
\* are given the same, whatever came before them
C39_InjectedTokenIsTheRequests ==
    /\ \A r \in AtTools :
         /\ r.injected \in TokensCarried(r.request) \cup {NULL}
         /\ TokensCarried(r.request) = {} => r.injected = NULL
    /\ \A r1, r2 \in AtTools : r1.request = r2.request => r1.injected = r2.injected

\* a request without a token, started in a context an earlier request's token
\* was written to, runs its tools next to a request that has that token
C39_Witness ==
    \E r1, r2 \in AtTools :
        /\ r1.injected = "hdr-1"
        /\ TokensCarried(r2.request) = {}
        /\ r2.inherited = "hdr-1"
        /\ r2.injected = NULL

-----------------------------------------------------------------------------
(* Tool calls of several sessions on the tool server (wallet/balance.py,
   wallet/cards.py, auth/tools.py): each call runs as a task of its own on
   one event loop, so what lies between two awaits runs undisturbed and
   another call may run at every await. *)

SessionIds == 1..MaxSessions

WalletTools == {"get_wallet_balance", "get_wallet_linked_cards"}
SessionTools ==
    WalletTools \cup {"generate_wallet_authentication_token", "clear_wallet_token"}

\* the tool call a session is in: where it is suspended ("idle" once it has
\* returned or raised), whether its token generation succeeded, the bearer
\* token of the gateway request it sent, and whether it raised
ToolTask(tool, pc, generated, bearer, raised) ==
    [tool |-> tool, pc |-> pc, generated |-> generated, bearer |-> bearer, raised |-> raised]

NoToolTask == ToolTask(NULL, "idle", FALSE, NULL, FALSE)

InitSessions ==
    /\ GraphIdle
    /\ InitServer
    /\ tm_enabled
    /\ results = <<>>
    /\ inflight = {}
    /\ authRun = NoAuthRun
    /\ sasai_token_context = NULL
    /\ httpRequests = {}
    /\ sessions = [i \in SessionIds |-> NoToolTask]

\* `token = token_manager.get_token()` and the client's request with it:
\* the client raises before sending when the token is missing
UseToken(tool, generated) ==
    LET token == get_token(NULL)
    IN  IF ~Truthy(token)
        THEN ToolTask(tool, "idle", generated, NULL, TRUE)
        ELSE ToolTask(tool, "requesting", generated, token, FALSE)

\* a tool is called: it runs up to its first await
StartCall(i, tool, auto_generate_token) ==
    /\ sessions[i].pc = "idle"
    /\ IF tool = "clear_wallet_token"
       THEN /\ tm_token' = clear_token
            /\ tm_metadata' = clear_token_metadata
            /\ sessions' = [sessions EXCEPT ![i] = ToolTask(tool, "idle", FALSE, NULL, FALSE)]
       ELSE /\ UNCHANGED <<tm_token, tm_metadata>>
            /\ sessions' =
                   [sessions EXCEPT ![i] =
                        IF \/ tool = "generate_wallet_authentication_token"
                           \/ ~has_token(NULL) /\ auto_generate_token
                        THEN ToolTask(tool, "generating", FALSE, NULL, FALSE)
                        ELSE UseToken(tool, FALSE)]
    /\ UNCHANGED <<graphVars, otherVars, lastCall, calls, issuedCalcs, results, inflight,
                   authRun, sasai_token_context, httpRequests>>

\* the gateway has answered the requests of generate_authentication_token:
\* it raises, or stores the token and leaves its `async with` block, which
\* awaits the closing of the HTTP client
FinishGeneration(i, outcome, fresh) ==
    /\ sessions[i].pc = "generating"
    /\ LET auth == Authenticated(outcome, fresh)
       IN  /\ tm_token' = auth.tm_token
           /\ tm_metadata' = auth.tm_metadata
           /\ sessions' =
                  [sessions EXCEPT ![i] =
                       IF auth.raised # NoError
                       THEN ToolTask(@.tool, "idle", FALSE, NULL, TRUE)
                       ELSE ToolTask(@.tool, "closing", TRUE, NULL, FALSE)]
    /\ UNCHANGED <<graphVars, otherVars, lastCall, calls, issuedCalcs, results, inflight,
                   authRun, sasai_token_context, httpRequests>>

\* the HTTP client is closed and the dict is returned to the tool
ResumeCall(i) ==
    /\ sessions[i].pc = "closing"
    /\ sessions' =
           [sessions EXCEPT ![i] =
                IF @.tool \in WalletTools THEN UseToken(@.tool, TRUE)
                ELSE ToolTask(@.tool, "idle", TRUE, NULL, FALSE)]
    /\ UNCHANGED <<graphVars, serverVars, results, inflight, authRun, sasai_token_context,
                   httpRequests>>

\* the gateway answers the tool's request
AnswerCall(i) ==
    /\ sessions[i].pc = "requesting"
    /\ sessions' = [sessions EXCEPT ![i].pc = "idle"]
    /\ UNCHANGED <<graphVars, serverVars, results, inflight, authRun, sasai_token_context,
                   httpRequests>>

NextSessions ==
    \E i \in SessionIds :
        \/ \E tool \in SessionTools, auto_generate_token \in BOOLEAN :
             StartCall(i, tool, auto_generate_token)
        \/ \E outcome \in AuthOutcomes, fresh \in Tokens : FinishGeneration(i, outcome, fresh)
        \/ ResumeCall(i)
        \/ AnswerCall(i)

SpecSessions == InitSessions /\ [][NextSessions]_vars

\* C40: a wallet tool call whose token generation succeeded, once it has
\* read the managed token, has sent its gateway request with a bearer token
C40_GeneratedTokenIsSent ==
    \A i \in SessionIds :
        /\ sessions[i].tool \in WalletTools
        /\ sessions[i].generated
        /\ sessions[i].pc \in {"requesting", "idle"}
        => Truthy(sessions[i].bearer)

====
